---- MODULE Spec2Model ----
(***************************************************************************)
(* A model of the request/response pipeline of q2api:                      *)
(*   - the streaming emitter   (src/claude_stream.py, ClaudeStreamHandler) *)
(*   - the Event Stream decoder (src/claude_parser.py, EventStreamDecoder) *)
(*   - the request transcoder  (src/claude_converter.py)                   *)
(* Python strings are sequences of one-character strings, bytes objects    *)
(* are sequences of integers 0..255, None and "" are the empty string.     *)
(***************************************************************************)
EXTENDS Integers, Sequences, FiniteSets, TLC

VARIABLES
    handler,    \* the ClaudeStreamHandler object (its fields)
    sse,        \* every SSE event the handler has yielded, in order
    fedText,    \* concatenation of the content of all assistantResponseEvents handled
    calls,      \* how the handler was driven: counts of calls by kind
    decoder,    \* the EventStreamDecoder object (its fields)
    wire,       \* the upstream byte stream: what it is made of, what is still to come
    returned,   \* every message feed has returned, with the bytes it was parsed from
    request,    \* the Claude request given to the transcoder
    outcome,    \* what convert_claude_to_amazonq_request made of it
    dispatch,   \* one send_chat_request call: its resources, its generator, its caller
    quote,      \* one QuoteState object, a text, and the calls made on them
    twin,       \* a second decoder, fed the same stream with other CRC values
    poll        \* one poll_token_device_code call: its clock, its deadline, its position

emitterVars == <<handler, sse, fedText, calls>>

decoderVars == <<decoder, wire, returned, twin>>

converterVars == <<request, outcome>>

dispatcherVars == <<dispatch>>

quoteVars == <<quote>>

pollVars == <<poll>>

vars == <<handler, sse, fedText, calls, decoder, wire, returned, request, outcome,
          dispatch, quote, twin, poll>>

\* what an action of one component leaves alone
notEmitterVars == <<decoderVars, converterVars, dispatcherVars, quoteVars, pollVars>>

notDecoderVars == <<emitterVars, converterVars, dispatcherVars, quoteVars, pollVars>>

notConverterVars == <<emitterVars, decoderVars, dispatcherVars, quoteVars, pollVars>>

notDispatcherVars == <<emitterVars, decoderVars, converterVars, quoteVars, pollVars>>

notQuoteVars == <<emitterVars, decoderVars, converterVars, dispatcherVars, pollVars>>

notPollVars == <<emitterVars, decoderVars, converterVars, dispatcherVars, quoteVars>>

------------------------------------------------------------------------------
(* Generic helpers: Python slicing on sequences.                            *)

Min(a, b) == IF a < b THEN a ELSE b

\* s[:n]
Take(s, n) == SubSeq(s, 1, Min(n, Len(s)))

\* s[n:]
Drop(s, n) == SubSeq(s, n + 1, Len(s))

\* s[i:j] for 0 <= i
Slice(s, i, j) == SubSeq(s, i + 1, Min(j, Len(s)))

------------------------------------------------------------------------------
(* src/claude_stream.py: tags, pending suffix, quote state, tag search      *)

THINKING_START_TAG == <<"<", "t", "h", "i", "n", "k", "i", "n", "g", ">">>

THINKING_END_TAG == <<"<", "/", "t", "h", "i", "n", "k", "i", "n", "g", ">">>

\* for length in range(max_len, 0, -1): if buffer[-length:] == tag[:length]: return length
\* (the first hit of the descending loop is the greatest matching length)
PendingLoop(buffer, tag, max_len) ==
    LET hits == { length \in 1..max_len :
                    SubSeq(buffer, Len(buffer) - length + 1, Len(buffer))
                        = SubSeq(tag, 1, length) }
    IN IF hits = {} THEN 0 ELSE CHOOSE l \in hits : \A m \in hits : m <= l

_pending_tag_suffix(buffer, tag) ==
    IF buffer = <<>> \/ tag = <<>> THEN 0
    ELSE PendingLoop(buffer, tag, Min(Len(buffer), Len(tag) - 1))

\* QuoteState.__init__ / QuoteState.reset
QuoteInit ==
    [in_single |-> FALSE, in_double |-> FALSE,
     in_backtick |-> FALSE, in_triple_backtick |-> FALSE]

is_inside_quotes(q) ==
    q.in_single \/ q.in_double \/ q.in_backtick \/ q.in_triple_backtick

\* the backtick character (the lexer of TLA+ has no literal for it)
BACKTICK == "BT"

TripleBacktick == <<BACKTICK, BACKTICK, BACKTICK>>

EscapedChars == {"\"", "'", BACKTICK, "\\"}

\* the if/elif chain on one character, shared shape of update and check_at_position
QuoteToggle(q, ch) ==
    IF ch = BACKTICK /\ ~q.in_triple_backtick /\ ~q.in_single /\ ~q.in_double
    THEN [q EXCEPT !.in_backtick = ~@]
    ELSE IF ch = "\"" /\ ~q.in_single /\ ~q.in_backtick /\ ~q.in_triple_backtick
    THEN [q EXCEPT !.in_double = ~@]
    ELSE IF ch = "'" /\ ~q.in_double /\ ~q.in_backtick /\ ~q.in_triple_backtick
    THEN [q EXCEPT !.in_single = ~@]
    ELSE q

\* The while loops of update and check_at_position advance an index i by 1, 2
\* or 3 per pass.  A pass of the loop body is a Step on [q, i].

\* QuoteState.update: one pass of "while i < len(text)"
UpdateStep(s, text) ==
    LET i == s.i IN
    IF i >= Len(text) THEN s
    ELSE IF i + 2 < Len(text) /\ SubSeq(text, i + 1, i + 3) = TripleBacktick
    THEN [q |-> [s.q EXCEPT !.in_triple_backtick = ~@], i |-> i + 3]
    ELSE IF text[i + 1] = "\\" /\ i + 1 < Len(text) /\ text[i + 2] \in EscapedChars
    THEN [q |-> s.q, i |-> i + 2]
    ELSE [q |-> QuoteToggle(s.q, text[i + 1]), i |-> i + 1]

RECURSIVE UpdateLoop(_, _)
UpdateLoop(s, text) ==
    IF s.i >= Len(text) THEN s
    ELSE UpdateLoop(UpdateStep(s, text), text)

QuoteUpdate(q, text) == UpdateLoop([q |-> q, i |-> 0], text).q

\* check_at_position without the backslash branch
CheckStep_NoEscape(s, text, pos) ==
    LET i == s.i IN
    IF i >= pos THEN s
    ELSE IF i + 2 < Len(text) /\ SubSeq(text, i + 1, i + 3) = TripleBacktick
    THEN [q |-> [s.q EXCEPT !.in_triple_backtick = ~@], i |-> i + 3]
    ELSE [q |-> QuoteToggle(s.q, text[i + 1]), i |-> i + 1]

\* QuoteState.check_at_position: one pass of "while i < pos", on a copy of the flags
CheckStep(s, text, pos) ==
    LET i == s.i IN
    IF i >= pos THEN s
    ELSE IF i + 2 < Len(text) /\ SubSeq(text, i + 1, i + 3) = TripleBacktick
    THEN [q |-> [s.q EXCEPT !.in_triple_backtick = ~@], i |-> i + 3]
    ELSE IF text[i + 1] = "\\" /\ i + 1 < Len(text) /\ text[i + 2] \in EscapedChars
    THEN [q |-> s.q, i |-> i + 2]
    ELSE [q |-> QuoteToggle(s.q, text[i + 1]), i |-> i + 1]

RECURSIVE CheckLoop(_, _, _)
CheckLoop(s, text, pos) ==
    IF s.i >= pos THEN s
    ELSE CheckLoop(CheckStep(s, text, pos), text, pos)

check_at_position(q, text, pos) ==
    is_inside_quotes(CheckLoop([q |-> q, i |-> 0], text, pos).q)

\* str.find(tag, pos): the lowest index >= pos where tag occurs, or -1
StrFind(text, tag, pos) ==
    LET hits == { i \in pos..(Len(text) - Len(tag)) :
                    SubSeq(text, i + 1, i + Len(tag)) = tag }
    IN IF hits = {} THEN -1 ELSE CHOOSE i \in hits : \A j \in hits : i <= j

RECURSIVE find_real_tag(_, _, _, _)
find_real_tag(text, tag, start, quote_state) ==
    LET idx == StrFind(text, tag, start) IN
    IF idx = -1 THEN -1
    ELSE IF ~check_at_position(quote_state, text, idx) THEN idx
    ELSE find_real_tag(text, tag, idx + 1, quote_state)

------------------------------------------------------------------------------
(* src/claude_parser.py: the SSE builders.  An SSE event is a record        *)
(* [type, index, kind, data]; index is -1 and data empty where the event    *)
(* carries none.                                                            *)

Ev(type, index, kind, data) ==
    [type |-> type, index |-> index, kind |-> kind, data |-> data]

build_message_start == Ev("message_start", -1, "", <<>>)

build_ping == Ev("ping", -1, "", <<>>)

build_content_block_start(index, block_type) ==
    Ev("content_block_start", index, block_type, <<>>)

build_content_block_delta(index, text, delta_type) ==
    Ev("content_block_delta", index, delta_type, text)

build_content_block_stop(index) == Ev("content_block_stop", index, "", <<>>)

build_tool_use_start(index) == Ev("content_block_start", index, "tool_use", <<>>)

build_tool_use_input_delta(index, fragment) ==
    Ev("content_block_delta", index, "input_json_delta", fragment)

\* one yielded string holding message_delta then message_stop; data is the
\* text whose tokens are counted as output tokens
build_message_stop(counted, stop_reason) ==
    << Ev("message_delta", -1, stop_reason, counted),
       Ev("message_stop", -1, "", <<>>) >>

------------------------------------------------------------------------------
(* src/claude_stream.py: ClaudeStreamHandler                                *)

None == ""

\* ClaudeStreamHandler.__init__
HandlerInit ==
    [ response_buffer          |-> <<>>,
      content_block_index      |-> -1,
      content_block_started    |-> FALSE,
      content_block_start_sent |-> FALSE,
      content_block_stop_sent  |-> FALSE,
      message_start_sent       |-> FALSE,
      current_tool_use         |-> None,
      tool_input_buffer        |-> <<>>,
      all_tool_inputs          |-> <<>>,
      has_tool_use             |-> FALSE,
      response_ended           |-> FALSE,
      in_think_block           |-> FALSE,
      think_buffer             |-> <<>>,
      pending_start_tag_chars  |-> 0,
      quote_state              |-> QuoteInit ]

\* the result of running handler code: the new fields and the events yielded
Res(h, em) == [h |-> h, em |-> em]

\* lines 262-267 / 275-280 without the increment of content_block_index
OpenTextBlock_SameIndex(r) ==
    IF ~r.h.content_block_start_sent
    THEN Res([r.h EXCEPT !.content_block_start_sent = TRUE,
                         !.content_block_started = TRUE,
                         !.content_block_stop_sent = FALSE],
             Append(r.em, build_content_block_start(r.h.content_block_index, "text")))
    ELSE r

\* lines 262-267 / 275-280: open a text block unless one is marked as started
OpenTextBlock(r) ==
    IF ~r.h.content_block_start_sent
    THEN Res([r.h EXCEPT !.content_block_index = @ + 1,
                         !.content_block_start_sent = TRUE,
                         !.content_block_started = TRUE,
                         !.content_block_stop_sent = FALSE],
             Append(r.em, build_content_block_start(r.h.content_block_index + 1, "text")))
    ELSE r

\* lines 242-252 / 287-297: close the block marked as started, open a thinking block
OpenThinkingBlock(r) ==
    LET closed ==
            IF r.h.content_block_start_sent
            THEN Res([r.h EXCEPT !.content_block_stop_sent = TRUE,
                                 !.content_block_start_sent = FALSE],
                     Append(r.em, build_content_block_stop(r.h.content_block_index)))
            ELSE r
    IN Res([closed.h EXCEPT !.content_block_index = @ + 1,
                            !.content_block_start_sent = TRUE,
                            !.content_block_started = TRUE,
                            !.content_block_stop_sent = FALSE,
                            !.in_think_block = TRUE],
           Append(closed.em,
                  build_content_block_start(closed.h.content_block_index + 1, "thinking")))

\* lines 268-270 / 281-283: emit a text delta and advance the quote state
EmitText(r, chunk) ==
    LET o == OpenTextBlock(r) IN
    Res([o.h EXCEPT !.response_buffer = @ \o chunk,
                    !.quote_state = QuoteUpdate(@, chunk)],
        Append(o.em, build_content_block_delta(o.h.content_block_index, chunk, "text_delta")))

\* lines 307-313 / 317-323
EmitThinking(r, chunk) ==
    IF chunk # <<>>
    THEN Res(r.h, Append(r.em,
                 build_content_block_delta(r.h.content_block_index, chunk, "thinking_delta")))
    ELSE r

\* lines 224-329: one pass of "while self.think_buffer"; done is set when the
\* pass leaves the loop (break, or the loop condition is false)
Break(r) == [h |-> r.h, em |-> r.em, done |-> TRUE]

Continue(r) == [h |-> r.h, em |-> r.em, done |-> FALSE]

ThinkStep(r) ==
    LET h == r.h
        B == r.h.think_buffer
    IN
    IF r.done \/ B = <<>> THEN Break(r)
    ELSE IF h.pending_start_tag_chars > 0 THEN
        IF Len(B) < h.pending_start_tag_chars
        THEN Break(Res([h EXCEPT !.pending_start_tag_chars = @ - Len(B),
                                 !.think_buffer = <<>>], r.em))
        ELSE Continue(Res([h EXCEPT !.think_buffer = Drop(B, h.pending_start_tag_chars),
                                    !.pending_start_tag_chars = 0], r.em))
    ELSE IF ~h.in_think_block THEN
        LET think_start == find_real_tag(B, THINKING_START_TAG, 0, h.quote_state) IN
        IF think_start = -1 THEN
            LET pending == _pending_tag_suffix(B, THINKING_START_TAG)
                emit_len == Len(B) - pending
            IN
            IF pending = Len(B) /\ pending > 0
            THEN LET o == OpenThinkingBlock(r) IN
                 Break(Res([o.h EXCEPT
                              !.pending_start_tag_chars = Len(THINKING_START_TAG) - pending,
                              !.think_buffer = <<>>], o.em))
            ELSE IF emit_len <= 0 THEN Break(r)
            ELSE LET e == EmitText(r, Take(B, emit_len)) IN
                 Continue(Res([e.h EXCEPT !.think_buffer = Drop(B, emit_len)], e.em))
        ELSE
            LET before_text == Take(B, think_start)
                e == IF before_text # <<>> THEN EmitText(r, before_text) ELSE r
                cut == Res([e.h EXCEPT
                              !.think_buffer = Drop(B, think_start + Len(THINKING_START_TAG)),
                              !.quote_state = QuoteInit], e.em)
                o == OpenThinkingBlock(cut)
            IN Continue(Res([o.h EXCEPT !.pending_start_tag_chars = 0], o.em))
    ELSE
        LET think_end == find_real_tag(B, THINKING_END_TAG, 0, h.quote_state) IN
        IF think_end = -1 THEN
            LET pending == _pending_tag_suffix(B, THINKING_END_TAG)
                emit_len == Len(B) - pending
            IN
            IF emit_len <= 0 THEN Break(r)
            ELSE LET e == EmitThinking(r, Take(B, emit_len)) IN
                 Continue(Res([e.h EXCEPT !.think_buffer = Drop(B, emit_len)], e.em))
        ELSE
            LET e == EmitThinking(r, Take(B, think_end)) IN
            Continue(Res([e.h EXCEPT
                            !.think_buffer = Drop(B, think_end + Len(THINKING_END_TAG)),
                            !.content_block_stop_sent = TRUE,
                            !.content_block_start_sent = FALSE,
                            !.in_think_block = FALSE],
                         Append(e.em, build_content_block_stop(e.h.content_block_index))))

\* passes until one leaves the loop
RECURSIVE ThinkPasses(_)
ThinkPasses(r) == IF r.done THEN r ELSE ThinkPasses(ThinkStep(r))

ThinkLoop(r) == LET end == ThinkPasses(Continue(r)) IN Res(end.h, end.em)

\* lines 202-209
\* message_start without the ping that follows it
HandleInitialResponse_NoPing(h) ==
    IF ~h.message_start_sent
    THEN Res([h EXCEPT !.message_start_sent = TRUE], <<build_message_start>>)
    ELSE Res(h, <<>>)

HandleInitialResponse(h) ==
    IF ~h.message_start_sent
    THEN Res([h EXCEPT !.message_start_sent = TRUE], <<build_message_start, build_ping>>)
    ELSE Res(h, <<>>)

\* lines 212-329; content is the payload's "content" ("" when absent)
HandleAssistantResponseEvent(h, content) ==
    LET closed ==
            IF h.current_tool_use # None /\ ~h.content_block_stop_sent
            THEN Res([h EXCEPT !.content_block_stop_sent = TRUE,
                               !.current_tool_use = None],
                     <<build_content_block_stop(h.content_block_index)>>)
            ELSE Res(h, <<>>)
    IN IF content # <<>>
       THEN ThinkLoop(Res([closed.h EXCEPT !.think_buffer = @ \o content], closed.em))
       ELSE closed

\* lines 332-381; payload = [toolUseId, name, input, stop], input already a
\* string fragment (a dict input is serialised by json.dumps, {} is falsy)
HandleToolUseEvent(h, payload) ==
    LET started ==
            IF payload.toolUseId # None /\ payload.name # None /\ h.current_tool_use = None
            THEN LET c == IF h.content_block_start_sent /\ ~h.content_block_stop_sent
                          THEN Res([h EXCEPT !.content_block_stop_sent = TRUE],
                                   <<build_content_block_stop(h.content_block_index)>>)
                          ELSE Res(h, <<>>)
                 IN Res([c.h EXCEPT !.content_block_index = @ + 1,
                                    !.content_block_started = TRUE,
                                    !.current_tool_use = payload.toolUseId,
                                    !.tool_input_buffer = <<>>,
                                    !.content_block_stop_sent = FALSE,
                                    !.content_block_start_sent = TRUE,
                                    !.has_tool_use = TRUE],
                        Append(c.em, build_tool_use_start(c.h.content_block_index + 1)))
            ELSE Res(h, <<>>)
        fed ==
            IF started.h.current_tool_use # None /\ payload.input # <<>>
            THEN Res([started.h EXCEPT !.tool_input_buffer = @ \o payload.input],
                     Append(started.em,
                            build_tool_use_input_delta(started.h.content_block_index,
                                                       payload.input)))
            ELSE started
    IN IF payload.stop /\ fed.h.current_tool_use # None
       THEN Res([fed.h EXCEPT !.all_tool_inputs = @ \o fed.h.tool_input_buffer,
                              !.content_block_stop_sent = TRUE,
                              !.content_block_started = FALSE,
                              !.current_tool_use = None,
                              !.tool_input_buffer = <<>>],
                Append(fed.em, build_content_block_stop(fed.h.content_block_index)))
       ELSE fed

\* lines 394-399 / 413-421: close-and-stop tail shared by the end event and finish
\* a stop reason that ignores tool use
StopReason_EndTurn(h) == "end_turn"

StopReason(h) == IF h.has_tool_use THEN "tool_use" ELSE "end_turn"

CountedText(h) == h.response_buffer \o h.all_tool_inputs

\* lines 384-399
HandleAssistantResponseEnd(h) ==
    LET closed ==
            IF h.content_block_started /\ ~h.content_block_stop_sent
            THEN Res([h EXCEPT !.content_block_stop_sent = TRUE],
                     <<build_content_block_stop(h.content_block_index)>>)
            ELSE Res(h, <<>>)
    IN Res([closed.h EXCEPT !.response_ended = TRUE],
           closed.em \o build_message_stop(CountedText(closed.h), StopReason(closed.h)))

\* handle_event without its early return on response_ended
handle_event_NoEarlyReturn(h, event_type, payload) ==
    IF event_type = "initial-response" THEN HandleInitialResponse(h)
    ELSE IF event_type = "assistantResponseEvent" THEN HandleAssistantResponseEvent(h, payload)
    ELSE IF event_type = "toolUseEvent" THEN HandleToolUseEvent(h, payload)
    ELSE IF event_type = "assistantResponseEnd" THEN HandleAssistantResponseEnd(h)
    ELSE Res(h, <<>>)

\* ClaudeStreamHandler.handle_event, lines 194-399
handle_event(h, event_type, payload) ==
    IF h.response_ended THEN Res(h, <<>>)
    ELSE IF event_type = "initial-response" THEN HandleInitialResponse(h)
    ELSE IF event_type = "assistantResponseEvent" THEN HandleAssistantResponseEvent(h, payload)
    ELSE IF event_type = "toolUseEvent" THEN HandleToolUseEvent(h, payload)
    ELSE IF event_type = "assistantResponseEnd" THEN HandleAssistantResponseEnd(h)
    ELSE Res(h, <<>>)

\* ClaudeStreamHandler.finish, lines 401-421
finish(h) ==
    IF h.response_ended THEN Res(h, <<>>)
    ELSE LET closed ==
                 IF h.content_block_started /\ ~h.content_block_stop_sent
                 THEN Res([h EXCEPT !.content_block_stop_sent = TRUE],
                          <<build_content_block_stop(h.content_block_index)>>)
                 ELSE Res(h, <<>>)
         IN Res(closed.h,
                closed.em \o build_message_stop(CountedText(closed.h), StopReason(closed.h)))

------------------------------------------------------------------------------
(* The emitter driven by its caller: any upstream events, then finish().    *)

MaxEvents == 4

MaxFinish == 2

\* contents of assistantResponseEvents
Chunks ==
    { <<>>,
      <<"a">>,
      <<"\"">>,
      <<"\\">>,
      THINKING_START_TAG,
      THINKING_END_TAG,
      <<"a", "<", "t", "h">>,
      <<"i", "n", "k", "i", "n", "g", ">", "b">> }

\* payloads of toolUseEvents: start, start+input+stop, input fragment, stop
ToolPayloads ==
    { [toolUseId |-> "t1", name |-> "n", input |-> <<>>, stop |-> FALSE],
      [toolUseId |-> "t1", name |-> "n", input |-> <<"x">>, stop |-> TRUE],
      [toolUseId |-> None, name |-> None, input |-> <<"y">>, stop |-> FALSE],
      [toolUseId |-> None, name |-> None, input |-> <<>>, stop |-> TRUE] }

\* first is the first call made on the handler: an event type, or "finish"
CallsInit ==
    [events |-> 0, tools |-> 0, ends |-> 0, finish |-> 0, late |-> 0, first |-> "none"]

EmitterInit ==
    /\ handler = HandlerInit
    /\ sse = <<>>
    /\ fedText = <<>>
    /\ calls = CallsInit

\* one handle_event call, drained by the caller
Deliver(event_type, payload) ==
    /\ calls.events < MaxEvents
    /\ calls.finish = 0
    /\ LET r == handle_event(handler, event_type, payload) IN
       /\ handler' = r.h
       /\ sse' = sse \o r.em
    /\ fedText' = IF event_type = "assistantResponseEvent" /\ ~handler.response_ended
                  THEN fedText \o payload ELSE fedText
    /\ calls' = [calls EXCEPT
                   !.events = @ + 1,
                   !.tools = @ + (IF event_type = "toolUseEvent" THEN 1 ELSE 0),
                   !.ends = @ + (IF event_type = "assistantResponseEnd" THEN 1 ELSE 0),
                   !.late = @ + (IF handler.response_ended THEN 1 ELSE 0),
                   !.first = IF @ = "none" THEN event_type ELSE @]
    /\ UNCHANGED notEmitterVars

InitialResponse == Deliver("initial-response", <<>>)

AssistantResponseEvent == \E c \in Chunks : Deliver("assistantResponseEvent", c)

ToolUseEvent == \E p \in ToolPayloads : Deliver("toolUseEvent", p)

AssistantResponseEnd == Deliver("assistantResponseEnd", <<>>)

\* one finish() call, drained by the caller
Finish ==
    /\ calls.finish < MaxFinish
    /\ LET r == finish(handler) IN
       /\ handler' = r.h
       /\ sse' = sse \o r.em
    /\ calls' = [calls EXCEPT !.finish = @ + 1,
                              !.late = @ + (IF handler.response_ended THEN 1 ELSE 0),
                              !.first = IF @ = "none" THEN "finish" ELSE @]
    /\ UNCHANGED fedText
    /\ UNCHANGED notEmitterVars

EmitterNext ==
    \/ InitialResponse
    \/ AssistantResponseEvent
    \/ ToolUseEvent
    \/ AssistantResponseEnd
    \/ Finish

\* contents that end inside a tag: the response may end while the handler holds
\* back the beginning of a closing or of an opening tag
TagCutChunks ==
    { THINKING_START_TAG \o <<"a">>,
      <<"a", "<", "/", "t", "h", "i">>,
      <<"n", "k", "i", "n", "g", ">", "b">>,
      <<"<">>,
      <<"a", "<", "t", "h">> }

TagCutEvent == \E c \in TagCutChunks : Deliver("assistantResponseEvent", c)

TagCutNext ==
    \/ TagCutEvent
    \/ AssistantResponseEnd
    \/ Finish

------------------------------------------------------------------------------
(* claude_parser.py: CRC32C.  A 32-bit word is the sequence of its four     *)
(* bytes, most significant first, which is also how struct.unpack('>I')     *)
(* reads it from the wire.                                                  *)

Bit(n, k) == (n \div (2 ^ k)) % 2

\* a ^ b for bytes, bit by bit
XorBits(a, b) ==
    ((Bit(a, 7) + Bit(b, 7)) % 2) * 128 + ((Bit(a, 6) + Bit(b, 6)) % 2) * 64
  + ((Bit(a, 5) + Bit(b, 5)) % 2) * 32 + ((Bit(a, 4) + Bit(b, 4)) % 2) * 16
  + ((Bit(a, 3) + Bit(b, 3)) % 2) * 8 + ((Bit(a, 2) + Bit(b, 2)) % 2) * 4
  + ((Bit(a, 1) + Bit(b, 1)) % 2) * 2 + ((Bit(a, 0) + Bit(b, 0)) % 2)

\* <<a ^ lo, ..., a ^ hi>>
RECURSIVE XorRow(_, _, _)
XorRow(a, lo, hi) ==
    IF lo = hi THEN <<XorBits(a, lo)>>
    ELSE XorRow(a, lo, (lo + hi) \div 2) \o XorRow(a, (lo + hi) \div 2 + 1, hi)

RECURSIVE XorRows(_, _)
XorRows(lo, hi) ==
    IF lo = hi THEN <<XorRow(lo, 0, 255)>>
    ELSE XorRows(lo, (lo + hi) \div 2) \o XorRows((lo + hi) \div 2 + 1, hi)

\* a ^ b for bytes, tabulated: the value is at [a + 1][b + 1]
XorByteTable == XorRows(0, 255)

\* a ^ b for bytes
XorByte(a, b) == XorByteTable[a + 1][b + 1]

\* a ^ b for 32-bit words
Xor32(a, b) ==
    <<XorByte(a[1], b[1]), XorByte(a[2], b[2]), XorByte(a[3], b[3]), XorByte(a[4], b[4])>>

\* w >> 1
Shr1(w) ==
    <<w[1] \div 2, (w[2] \div 2) + (w[1] % 2) * 128,
      (w[3] \div 2) + (w[2] % 2) * 128, (w[4] \div 2) + (w[3] % 2) * 128>>

\* w >> 8
Shr8(w) == <<0, w[1], w[2], w[3]>>

\* 0x82F63B78, the Castagnoli polynomial
CRC32C_POLY == <<130, 246, 59, 120>>

\* 0xFFFFFFFF
AllOnes == <<255, 255, 255, 255>>

RECURSIVE TableEntry(_, _)
TableEntry(crc, rounds) ==
    IF rounds = 0 THEN crc
    ELSE TableEntry(IF crc[4] % 2 = 1 THEN Xor32(Shr1(crc), CRC32C_POLY) ELSE Shr1(crc),
                    rounds - 1)

RECURSIVE TableRows(_, _)
TableRows(lo, hi) ==
    IF lo = hi THEN <<TableEntry(<<0, 0, 0, lo>>, 8)>>
    ELSE TableRows(lo, (lo + hi) \div 2) \o TableRows((lo + hi) \div 2 + 1, hi)

\* _init_crc32c_table; the entry of i is at [i + 1]
CRC32C_TABLE == TableRows(0, 255)

\* crc = CRC32C_TABLE[(crc ^ byte) & 0xFF] ^ (crc >> 8), entry being the table entry
CrcStep(crc, entry) == Xor32(entry, Shr8(crc))

RECURSIVE CrcLoop(_, _)
CrcLoop(s, data) ==
    IF s.i > Len(data) THEN s.crc
    ELSE CrcLoop([i |-> s.i + 1,
                  crc |-> CrcStep(s.crc, CRC32C_TABLE[XorByte(s.crc[4], data[s.i]) + 1])],
                 data)

\* crc32c(data) with initial = 0
crc32c(data) == Xor32(CrcLoop([i |-> 1, crc |-> AllOnes], data), AllOnes)

------------------------------------------------------------------------------
(* claude_parser.py: EventStreamParser.parse_headers.                       *)

MIN_TOTAL_LENGTH == 16

MAX_TOTAL_LENGTH == 16 * 1024 * 1024

\* struct.unpack('>I', b): every use compares the result with a length or with
\* 16 MiB, so the values from 2^31 up are all represented by 2^31 - 1
unpack_I(b) ==
    IF b[1] >= 128 THEN 2147483647
    ELSE b[1] * 16777216 + b[2] * 65536 + b[3] * 256 + b[4]

\* struct.unpack('>H', b)
unpack_H(b) == b[1] * 256 + b[2]

\* struct.unpack('>h', b)
unpack_h(b) == (IF b[1] >= 128 THEN b[1] - 256 ELSE b[1]) * 256 + b[2]

\* struct.unpack('>i', b)
unpack_i(b) ==
    (IF b[1] >= 128 THEN b[1] - 256 ELSE b[1]) * 16777216 + b[2] * 65536 + b[3] * 256 + b[4]

IsCont(b) == b >= 128 /\ b <= 191

\* the length of the well-formed UTF-8 sequence starting at index i (1-based), 0 if none
Utf8SeqLen(b, i) ==
    LET c == b[i]
        has(n) == i + n <= Len(b) /\ \A k \in 1..n : IsCont(b[i + k])
    IN IF c <= 127 THEN 1
       ELSE IF c >= 194 /\ c <= 223 /\ has(1) THEN 2
       ELSE IF c >= 224 /\ c <= 239 /\ has(2)
               /\ (c = 224 => b[i + 1] >= 160) /\ (c = 237 => b[i + 1] <= 159) THEN 3
       ELSE IF c >= 240 /\ c <= 244 /\ has(3)
               /\ (c = 240 => b[i + 1] >= 144) /\ (c = 244 => b[i + 1] <= 143) THEN 4
       ELSE 0

RECURSIVE Utf8Loop(_, _)
Utf8Loop(b, i) ==
    IF i > Len(b) THEN TRUE
    ELSE IF Utf8SeqLen(b, i) = 0 THEN FALSE
    ELSE Utf8Loop(b, i + Utf8SeqLen(b, i))

\* bytes.decode('utf-8') succeeds; the decoded string is identified by its bytes
Utf8Ok(b) == Utf8Loop(b, 1)

\* header values: the Python value a header type decodes to
HBool(v) == [t |-> "bool", n |-> IF v THEN 1 ELSE 0, b |-> <<>>]

HInt(n) == [t |-> "int", n |-> n, b |-> <<>>]

HLong(b) == [t |-> "int64", n |-> 0, b |-> b]

HBytes(b) == [t |-> "bytes", n |-> 0, b |-> b]

HStr(b) == [t |-> "str", n |-> 0, b |-> b]

HHex(b) == [t |-> "hex", n |-> 0, b |-> b]

\* headers[name] = value on a dict held as a set of <<name, value>> pairs
DictSet(headers, name, value) ==
    { p \in headers : p[1] # name } \cup { <<name, value>> }

HBreak(s) == [s EXCEPT !.done = TRUE]

HRaise(s) == [s EXCEPT !.done = TRUE, !.raised = TRUE]

\* one pass of the while loop of parse_headers; s.offset is 0-based
HeaderStep(s, data) ==
    LET n == Len(data)
        name_length == data[s.offset + 1]
        o1 == s.offset + 1
        name == Slice(data, o1, o1 + name_length)
        o2 == o1 + name_length
        value_type == data[o2 + 1]
        o3 == o2 + 1
        put(value, o) == [s EXCEPT !.headers = DictSet(@, name, value), !.offset = o]
        fixed(width, value) == IF o3 + width > n THEN HBreak(s) ELSE put(value, o3 + width)
        value_length == unpack_H(Slice(data, o3, o3 + 2))
        raw == Slice(data, o3 + 2, o3 + 2 + value_length)
    IN IF o1 + name_length > n THEN HBreak(s)
       ELSE IF ~Utf8Ok(name) THEN HRaise(s)
       ELSE IF o2 >= n THEN HBreak(s)
       ELSE IF value_type = 0 THEN put(HBool(TRUE), o3)
       ELSE IF value_type = 1 THEN put(HBool(FALSE), o3)
       ELSE IF value_type = 2 THEN fixed(1, HInt(data[o3 + 1]))
       ELSE IF value_type = 3 THEN fixed(2, HInt(unpack_h(Slice(data, o3, o3 + 2))))
       ELSE IF value_type = 4 THEN fixed(4, HInt(unpack_i(Slice(data, o3, o3 + 4))))
       ELSE IF value_type \in {5, 8} THEN fixed(8, HLong(Slice(data, o3, o3 + 8)))
       ELSE IF value_type \in {6, 7} THEN
            IF o3 + 2 > n THEN HBreak(s)
            ELSE IF o3 + 2 + value_length > n THEN HBreak(s)
            ELSE IF value_type = 7 /\ ~Utf8Ok(raw) THEN HRaise(s)
            ELSE put(IF value_type = 7 THEN HStr(raw) ELSE HBytes(raw), o3 + 2 + value_length)
       ELSE IF value_type = 9 THEN fixed(16, HHex(Slice(data, o3, o3 + 16)))
       ELSE HBreak(s)

RECURSIVE HeaderLoop(_, _)
HeaderLoop(s, data) ==
    IF s.done \/ s.offset >= Len(data) THEN s ELSE HeaderLoop(HeaderStep(s, data), data)

HeadersResult(end) == [headers |-> end.headers, raised |-> end.raised]

\* EventStreamParser.parse_headers: the dict, or raised when a decode fails
parse_headers(headers_data) ==
    HeadersResult(HeaderLoop([headers |-> {}, offset |-> 0, done |-> FALSE, raised |-> FALSE],
                             headers_data))

------------------------------------------------------------------------------
(* claude_parser.py: EventStreamDecoder.                                    *)

\* EventStreamDecoder.__init__
DecoderInit(max_errors, validate_crc) ==
    [state |-> "READY", buffer |-> <<>>, error_count |-> 0, max_errors |-> max_errors,
     validate_crc |-> validate_crc, messages_parsed |-> 0, crc_errors |-> 0]

IsDigit(b) == b >= 48 /\ b <= 57

\* json.loads(payload_data.decode('utf-8')) succeeds.  Exact on the payloads the
\* modelled frames carry: the only JSON documents among them are {} and the
\* integer literals.
JsonOk(payload_data) ==
    /\ Utf8Ok(payload_data)
    /\ \/ payload_data = <<123, 125>>
       \/ /\ Len(payload_data) >= 1
          /\ \A k \in DOMAIN payload_data : IsDigit(payload_data[k])
          /\ (Len(payload_data) > 1 => payload_data[1] # 48)

\* the payload of a message: None, the parsed JSON document (identified by its
\* text), or the raw bytes
DecodePayload(payload_data) ==
    IF payload_data = <<>> THEN [t |-> "none", b |-> <<>>]
    ELSE IF JsonOk(payload_data) THEN [t |-> "json", b |-> payload_data]
    ELSE [t |-> "bytes", b |-> payload_data]

ParseNone(d) == [kind |-> "none", d |-> d, msg |-> <<>>, raw |-> <<>>]

ParseFalse(d) == [kind |-> "false", d |-> d, msg |-> <<>>, raw |-> <<>>]

\* message_data[12:12 + headers_length]
HeadersData(message_data, headers_length) ==
    IF headers_length >= Len(message_data) THEN Drop(message_data, 12)
    ELSE Slice(message_data, 12, 12 + headers_length)

\* message_data[12 + headers_length:total_length - 4]
PayloadData(message_data, headers_length) ==
    IF headers_length >= Len(message_data) THEN <<>>
    ELSE Slice(message_data, 12 + headers_length, Len(message_data) - 4)

\* _try_parse_message, lines 148-164: the payload, the buffer, the message
ParseDone(d, message_data, parsed, payload_data) ==
    IF parsed.raised THEN ParseFalse(d)
    ELSE [kind |-> "msg",
          d |-> [d EXCEPT !.buffer = Drop(@, Len(message_data))],
          msg |-> [headers |-> parsed.headers,
                   payload |-> DecodePayload(payload_data),
                   total_length |-> Len(message_data)],
          raw |-> message_data]

\* _try_parse_message, lines 141-146: the headers and the payload bytes
ParseBody(d, message_data, headers_length) ==
    ParseDone(d, message_data,
              parse_headers(HeadersData(message_data, headers_length)),
              PayloadData(message_data, headers_length))

PreludeCrcBad(message_data) ==
    Slice(message_data, 8, 12) # crc32c(Slice(message_data, 0, 8))

MessageCrcBad(message_data) ==
    Drop(message_data, Len(message_data) - 4)
        # crc32c(Take(message_data, Len(message_data) - 4))

\* lines 126-139 without the comparison of the message CRC
ParseChecked_NoMessageCrc(d, message_data) ==
    IF d.validate_crc /\ PreludeCrcBad(message_data)
    THEN ParseFalse([d EXCEPT !.crc_errors = @ + 1])
    ELSE ParseBody(d, message_data, unpack_I(Slice(message_data, 4, 8)))

\* _try_parse_message, lines 126-141: the CRC comparisons
ParseChecked(d, message_data) ==
    IF d.validate_crc /\ PreludeCrcBad(message_data)
    THEN ParseFalse([d EXCEPT !.crc_errors = @ + 1])
    ELSE IF d.validate_crc /\ MessageCrcBad(message_data)
    THEN ParseFalse([d EXCEPT !.crc_errors = @ + 1])
    ELSE ParseBody(d, message_data, unpack_I(Slice(message_data, 4, 8)))

\* _try_parse_message, lines 118-124: the bounds on total_length
ParseSized(d, total_length) ==
    IF total_length < MIN_TOTAL_LENGTH \/ total_length > MAX_TOTAL_LENGTH THEN ParseFalse(d)
    ELSE IF Len(d.buffer) < total_length THEN ParseNone(d)
    ELSE ParseChecked(d, Take(d.buffer, total_length))

\* EventStreamDecoder._try_parse_message; called with at least 12 bytes buffered.
\* raw is the message_data the message was parsed from.
_try_parse_message(d) == ParseSized(d, unpack_I(Slice(d.buffer, 0, 4)))

\* the offsets at which the recovery scan accepts a prelude
RecoverHits(buffer) ==
    { i \in 0..(Len(buffer) - 12) :
        LET total_length == unpack_I(Slice(buffer, i, i + 4))
        IN /\ MIN_TOTAL_LENGTH <= total_length
           /\ total_length <= MAX_TOTAL_LENGTH
           /\ crc32c(Slice(buffer, i, i + 8)) = Slice(buffer, i + 8, i + 12) }

SetMin(S) == CHOOSE x \in S : \A y \in S : x <= y

\* _try_recover, lines 194-195: the buffer length above which a failed scan cuts
\* the buffer, and what it keeps
RECOVER_BUFFER_LIMIT == 16 * 1024

RECOVER_BUFFER_KEPT == 1024

\* lines 180-197 without the cut of lines 194-195
RecoverScan_NoCut(d, buffer, hits) ==
    IF hits # {}
    THEN [ok |-> TRUE, d |-> [d EXCEPT !.buffer = Drop(buffer, SetMin(hits))]]
    ELSE [ok |-> FALSE, d |-> [d EXCEPT !.buffer = buffer]]

\* _try_recover once the first byte is dropped: buffer is what is left, hits the
\* offsets the scan accepts
RecoverScan(d, buffer, hits) ==
    IF hits # {}
    THEN [ok |-> TRUE, d |-> [d EXCEPT !.buffer = Drop(buffer, SetMin(hits))]]
    ELSE [ok |-> FALSE,
          d |-> [d EXCEPT !.buffer = IF Len(buffer) > RECOVER_BUFFER_LIMIT
                                     THEN Drop(buffer, Len(buffer) - RECOVER_BUFFER_KEPT)
                                     ELSE buffer]]

\* _try_recover without line 178, the scan starting at the byte that failed
_try_recover_KeepsFirst(d) ==
    IF Len(d.buffer) < 12 THEN [ok |-> FALSE, d |-> d]
    ELSE RecoverScan(d, d.buffer, RecoverHits(d.buffer))

\* EventStreamDecoder._try_recover
_try_recover(d) ==
    IF Len(d.buffer) < 12 THEN [ok |-> FALSE, d |-> d]
    ELSE RecoverScan(d, Drop(d.buffer, 1), RecoverHits(Drop(d.buffer, 1)))

FeedBreak(s) == [s EXCEPT !.done = TRUE]

\* lines 96-104 stopping only once error_count is above max_errors
ParseFailed_Late(s, failed) ==
    IF failed.error_count > failed.max_errors
    THEN FeedBreak([s EXCEPT !.d = [failed EXCEPT !.state = "STOPPED"]])
    ELSE [s EXCEPT !.d = [failed EXCEPT !.state = "RECOVERING"]]

\* feed, lines 96-104: a parse error
ParseFailed(s, failed) ==
    IF failed.error_count >= failed.max_errors
    THEN FeedBreak([s EXCEPT !.d = [failed EXCEPT !.state = "STOPPED"]])
    ELSE [s EXCEPT !.d = [failed EXCEPT !.state = "RECOVERING"]]

\* feed, lines 94-110: what follows the call of _try_parse_message
AfterParse(s, result) ==
    IF result.kind = "none" THEN FeedBreak([s EXCEPT !.d = result.d])
    ELSE IF result.kind = "false"
    THEN ParseFailed(s, [result.d EXCEPT !.error_count = @ + 1])
    ELSE [s EXCEPT !.d = [result.d EXCEPT !.state = "READY", !.error_count = 0,
                                          !.messages_parsed = @ + 1],
                   !.returned = Append(@, [msg |-> result.msg, raw |-> result.raw])]

\* the rest of a pass of the loop of feed once recovery, if any, has succeeded
ParseStep(s) ==
    IF Len(s.d.buffer) < 12 THEN FeedBreak(s)
    ELSE AfterParse(s, _try_parse_message([s.d EXCEPT !.state = "PARSING"]))

\* feed, lines 85-88: what follows the call of _try_recover
AfterRecover(s, r) ==
    IF ~r.ok THEN FeedBreak([s EXCEPT !.d = r.d])
    ELSE ParseStep([s EXCEPT !.d = [r.d EXCEPT !.state = "READY"]])

\* one pass of the while True loop of feed
FeedStep(s) ==
    IF s.d.state = "RECOVERING" THEN AfterRecover(s, _try_recover(s.d)) ELSE ParseStep(s)

RECURSIVE FeedLoop(_)
FeedLoop(s) == IF s.done THEN s ELSE FeedLoop(FeedStep(s))

FeedResult(end) == [d |-> end.d, returned |-> end.returned]

\* feed replacing the buffer by the new data instead of extending it
feed_ForgetsBuffer(d, data) ==
    IF d.state = "STOPPED" THEN [d |-> d, returned |-> <<>>]
    ELSE FeedResult(FeedLoop([d |-> [d EXCEPT !.buffer = data],
                              returned |-> <<>>, done |-> FALSE]))

\* feed without the test of lines 79-80
feed_OnStopped(d, data) ==
    FeedResult(FeedLoop([d |-> [d EXCEPT !.buffer = @ \o data],
                         returned |-> <<>>, done |-> FALSE]))

\* EventStreamDecoder.feed: the decoder afterwards and the messages returned,
\* each with the bytes it was parsed from
feed(d, data) ==
    IF d.state = "STOPPED" THEN [d |-> d, returned |-> <<>>]
    ELSE FeedResult(FeedLoop([d |-> [d EXCEPT !.buffer = @ \o data],
                              returned |-> <<>>, done |-> FALSE]))

------------------------------------------------------------------------------
(* The upstream byte stream the decoder is fed: a sequence of wire items,   *)
(* cut into chunks at arbitrary places.                                     *)

MaxItems == 2

\* struct.pack('>I', n)
pack_I(n) == <<n \div 16777216, (n \div 65536) % 256, (n \div 256) % 256, n % 256>>

\* a frame body followed by its CRC32C
WithCrc(body) == body \o crc32c(body)

\* a well-formed frame: prelude, prelude CRC, headers, payload, message CRC
EncodeFrame(headers_data, payload_data) ==
    WithCrc(WithCrc(pack_I(16 + Len(headers_data) + Len(payload_data))
                       \o pack_I(Len(headers_data)))
               \o headers_data \o payload_data)

\* the same bytes with one byte changed (index 1-based)
Corrupt(frame, k) == [frame EXCEPT ![k] = XorByte(@, 255)]

\* the header e = "x" (string)
HeaderE == <<1, 101, 7, 0, 1, 120>>

FrameEvent == EncodeFrame(HeaderE, <<123, 125>>)

FrameOne == EncodeFrame(<<>>, <<49>>)

\* frames with correct CRCs whose header region is faulty: a string value
\* announced with 5 bytes of which 1 is there; a header of the unknown type
\* 10; the header e = "x" followed by a header of the unknown type 10
FrameTruncatedHeader == EncodeFrame(<<1, 101, 7, 0, 5, 120>>, <<>>)

FrameUnknownType == EncodeFrame(<<1, 101, 10>>, <<123, 125>>)

FramePartialHeaders == EncodeFrame(HeaderE \o <<1, 102, 10>>, <<123, 125>>)

\* a frame of 16 + Len(body) bytes with correct CRCs whose prelude announces
\* headers_length header bytes, whatever the body holds
EncodeFrameWith(headers_length, body) ==
    WithCrc(WithCrc(pack_I(16 + Len(body)) \o pack_I(headers_length)) \o body)

\* frames with correct CRCs whose headers_length is above total_length - 16:
\* 10 for the 6 bytes of the header e = "x"; 8 for that header followed by the
\* payload {}; 100 in a frame of 22 bytes
FrameLongHeaders == EncodeFrameWith(10, HeaderE)

FrameOverPayload == EncodeFrameWith(8, HeaderE \o <<123, 125>>)

FrameBeyond == EncodeFrameWith(100, HeaderE)

OverlongItems == {"long_headers", "over_payload", "beyond_frame"}

\* the header names event-type and :event-type
EVENT_TYPE == <<101, 118, 101, 110, 116, 45, 116, 121, 112, 101>>

COLON_EVENT_TYPE == <<58>> \o EVENT_TYPE

\* the headers :event-type = "x" and event-type = "x" (strings)
HeaderTyped == <<Len(COLON_EVENT_TYPE)>> \o COLON_EVENT_TYPE \o <<7, 0, 1, 120>>

HeaderPlainTyped == <<Len(EVENT_TYPE)>> \o EVENT_TYPE \o <<7, 0, 1, 120>>

\* frames with an event type whose payload is 1, {} or missing, one named by
\* event-type, and a frame without event type
EventItems == {"typed_one", "typed_object", "typed_bare", "plain_typed", "event"}

ValidItems == {"event", "one"}

HeaderFaultItems == {"truncated_header", "unknown_type", "partial_headers"}

InvalidItems == {"bad_prelude", "bad_message", "garbage"}

WireItems == ValidItems \cup InvalidItems

ItemBytes(item) ==
    CASE item = "event" -> FrameEvent
      [] item = "one" -> FrameOne
      [] item = "bad_prelude" -> Corrupt(FrameOne, 9)
      [] item = "bad_message" -> Corrupt(FrameOne, Len(FrameOne))
      [] item = "garbage" -> <<255>>
      [] item = "garbage0" -> <<0>>
      [] item = "garbage1" -> <<1>>
      [] item = "truncated_header" -> FrameTruncatedHeader
      [] item = "unknown_type" -> FrameUnknownType
      [] item = "partial_headers" -> FramePartialHeaders
      [] item = "typed_one" -> EncodeFrame(HeaderTyped, <<49>>)
      [] item = "typed_object" -> EncodeFrame(HeaderTyped, <<123, 125>>)
      [] item = "typed_bare" -> EncodeFrame(HeaderTyped, <<>>)
      [] item = "plain_typed" -> EncodeFrame(HeaderPlainTyped, <<49>>)
      [] item = "long_headers" -> FrameLongHeaders
      [] item = "over_payload" -> FrameOverPayload
      [] item = "beyond_frame" -> FrameBeyond

RECURSIVE WireBytes(_)
WireBytes(items) ==
    IF items = <<>> THEN <<>> ELSE ItemBytes(Head(items)) \o WireBytes(Tail(items))

ItemSeqs == UNION { [1..n -> WireItems] : n \in 0..MaxItems }

\* two valid frames with one garbage byte between them
GarbageItems == {"garbage", "garbage0", "garbage1"}

Separated ==
    { <<f1, g, f2>> : f1 \in ValidItems, g \in GarbageItems, f2 \in ValidItems }

\* max_errors is a constructor argument (3 by default, 5 in parse_stream); with 2
\* a stream of two faulty items already stops the decoder
MaxErrorsChoices == {2, 3}

\* a run of frames with a bad message CRC, each a parse error, then a valid frame:
\* the decoder stops inside the stream
Faulty ==
    { <<"bad_message", "bad_message", "bad_message", "bad_message", "bad_message", f>> :
        f \in ValidItems }

\* feeds counts the feed calls made, 2 standing for two or more, and late those
\* made on a stopped decoder; via is who reads the stream, a caller of feed or
\* parse_stream, whose loop runs while reading is true
WireInit(items) ==
    [items |-> items, rest |-> WireBytes(items), fed |-> <<>>, feeds |-> 0, late |-> 0,
     via |-> "feed", reading |-> TRUE]

\* the second decoder and what is left of its stream; no second decoder in use
TwinInit(d, bytes) == [d |-> d, rest |-> bytes, returned |-> <<>>]

TwinIdle == twin = TwinInit(DecoderInit(3, TRUE), <<>>)

\* parse_stream, line 350: the decoder it constructs
PARSE_STREAM_MAX_ERRORS == 5

StreamInit(items) == [WireInit(items) EXCEPT !.via = "parse_stream"]

DecoderEnvInit ==
    /\ \/ /\ \E max_errors \in MaxErrorsChoices, validate_crc \in BOOLEAN :
                decoder = DecoderInit(max_errors, validate_crc)
          /\ \E items \in ItemSeqs \cup Separated \cup Faulty : wire = WireInit(items)
       \/ /\ \E validate_crc \in BOOLEAN :
                decoder = DecoderInit(PARSE_STREAM_MAX_ERRORS, validate_crc)
          /\ \E items \in Separated \cup Faulty : wire = StreamInit(items)
    /\ returned = <<>>
    /\ TwinIdle

\* streams holding a frame whose header region is faulty, alone, before or after
\* a valid frame, or twice
HeaderFaulty ==
    { <<h>> : h \in HeaderFaultItems }
    \cup { <<h, f>> : h \in HeaderFaultItems, f \in ValidItems }
    \cup { <<f, h>> : h \in HeaderFaultItems, f \in ValidItems }
    \cup { <<h, h>> : h \in HeaderFaultItems }

HeadersEnvInit ==
    /\ \/ /\ \E max_errors \in MaxErrorsChoices, validate_crc \in BOOLEAN :
                decoder = DecoderInit(max_errors, validate_crc)
          /\ \E items \in HeaderFaulty : wire = WireInit(items)
       \/ /\ decoder = DecoderInit(PARSE_STREAM_MAX_ERRORS, TRUE)
          /\ \E items \in HeaderFaulty : wire = StreamInit(items)
    /\ returned = <<>>
    /\ TwinIdle

\* streams holding a frame whose headers_length is too large for the frame,
\* alone, before or after a valid frame, or two of them
Overlong ==
    { <<h>> : h \in OverlongItems }
    \cup { <<h, f>> : h \in OverlongItems, f \in ValidItems }
    \cup { <<f, h>> : h \in OverlongItems, f \in ValidItems }
    \cup { <<h, g>> : h \in OverlongItems, g \in OverlongItems }

OverlongEnvInit ==
    /\ \/ /\ \E max_errors \in MaxErrorsChoices, validate_crc \in BOOLEAN :
                decoder = DecoderInit(max_errors, validate_crc)
          /\ \E items \in Overlong : wire = WireInit(items)
       \/ /\ decoder = DecoderInit(PARSE_STREAM_MAX_ERRORS, TRUE)
          /\ \E items \in Overlong : wire = StreamInit(items)
    /\ returned = <<>>
    /\ TwinIdle

\* streams of one or two items of any kind, valid or not, the separated and the
\* faulty ones, and a parsed frame followed by three frames with a bad message
\* CRC: parse errors alone, in a row, and after and between parsed frames
Relapse ==
    { <<f, "bad_message", "bad_message", "bad_message", g>> :
        f \in ValidItems, g \in ValidItems }

ErrorStreams ==
    { <<a>> : a \in WireItems } \cup { <<a, b>> : a \in WireItems, b \in WireItems }
    \cup Separated \cup Faulty \cup Relapse

ErrorsEnvInit ==
    /\ \/ /\ \E max_errors \in MaxErrorsChoices, validate_crc \in BOOLEAN :
                decoder = DecoderInit(max_errors, validate_crc)
          /\ \E items \in ErrorStreams : wire = WireInit(items)
       \/ /\ decoder = DecoderInit(PARSE_STREAM_MAX_ERRORS, TRUE)
          /\ \E items \in Faulty : wire = StreamInit(items)
    /\ returned = <<>>
    /\ TwinIdle

\* the decoder is not in use
DecoderIdle ==
    /\ decoder = DecoderInit(3, TRUE)
    /\ wire = WireInit(<<>>)
    /\ returned = <<>>
    /\ TwinIdle

\* the chunk lengths tried: short ones, which cut inside every field of a frame,
\* and the whole of what is left
ChunkLengths == {1, 2, 3, 5, 8, 13}

\* one feed call with data, r being what it returns
FeedCall(data, r) ==
    /\ decoder' = r.d
    /\ returned' = returned \o r.returned
    /\ wire' = [wire EXCEPT !.rest = Drop(@, Len(data)), !.fed = @ \o data,
                            !.feeds = Min(@ + 1, 2),
                            !.late = Min(@ + (IF decoder.state = "STOPPED" THEN 1 ELSE 0), 2),
                            !.reading = IF wire.via = "parse_stream"
                                        THEN r.d.state # "STOPPED" ELSE @]
    /\ UNCHANGED twin
    /\ UNCHANGED notDecoderVars

\* one feed call with the next n bytes of the stream
Feed ==
    /\ wire.via = "feed"
    /\ \E n \in { k \in 1..Len(wire.rest) : k \in ChunkLengths \/ k = Len(wire.rest) } :
          FeedCall(Take(wire.rest, n), feed(decoder, Take(wire.rest, n)))

\* parse_stream, lines 352-359: one pass of "async for chunk in byte_stream", its
\* messages drained by the consumer; the break at line 359 ends the reading
ParseStreamPass ==
    /\ wire.via = "parse_stream"
    /\ wire.reading
    /\ \E n \in { k \in 1..Len(wire.rest) : k \in ChunkLengths \/ k = Len(wire.rest) } :
          FeedCall(Take(wire.rest, n), feed(decoder, Take(wire.rest, n)))

DecoderNext ==
    \/ Feed
    \/ ParseStreamPass

(* replicate.py, _iter_events over EventStreamParser.parse_stream;           *)
(* claude_parser.py, extract_event_info.  wire.events is what the generator  *)
(* has yielded to its consumer.                                              *)

\* bool(value) of a header value
HeaderTruthy(v) ==
    CASE v.t \in {"bool", "int"} -> v.n # 0
      [] v.t = "int64" -> \E k \in DOMAIN v.b : v.b[k] # 0
      [] OTHER -> v.b # <<>>

\* bool(payload): None, {} and 0 are false
PayloadTruthy(p) ==
    CASE p.t = "none" -> FALSE
      [] p.t = "json" -> p.b \notin {<<123, 125>>, <<48>>}
      [] OTHER -> p.b # <<>>

HNone == [t |-> "none", n |-> 0, b |-> <<>>]

\* headers.get(name)
headers_get(headers, name) ==
    IF \E p \in headers : p[1] = name
    THEN (CHOOSE p \in headers : p[1] = name)[2]
    ELSE HNone

\* a or b
PyOr(a, b) == IF HeaderTruthy(a) THEN a ELSE b

\* extract_event_info: the event type and the payload of a message
extract_event_info(message) ==
    [event_type |-> PyOr(headers_get(message.headers, COLON_EVENT_TYPE),
                         headers_get(message.headers, EVENT_TYPE)),
     payload |-> message.payload]

\* lines 387-390: what the generator yields for one message
YieldsOf(event_info) ==
    IF HeaderTruthy(event_info.event_type) /\ PayloadTruthy(event_info.payload)
    THEN <<event_info>> ELSE <<>>

\* lines 387-390 yielding whenever there is an event type
YieldsOf_AnyPayload(event_info) ==
    IF HeaderTruthy(event_info.event_type) THEN <<event_info>> ELSE <<>>

\* lines 385-390 over the messages of one pass of parse_stream
RECURSIVE iter_events(_)
iter_events(messages) ==
    IF messages = <<>> THEN <<>>
    ELSE YieldsOf(extract_event_info(Head(messages).msg)) \o iter_events(Tail(messages))

IterInit(items) ==
    [items |-> items, rest |-> WireBytes(items), fed |-> <<>>, feeds |-> 0, late |-> 0,
     via |-> "iter_events", reading |-> TRUE, events |-> <<>>]

EventStreams ==
    { <<a>> : a \in EventItems }
    \cup { <<a, b>> : a \in EventItems, b \in EventItems }
    \cup { <<a, b, "typed_one">> : a \in EventItems, b \in EventItems }

\* parse_stream is called with validate_crc left at its default
ForwardEnvInit ==
    /\ decoder = DecoderInit(PARSE_STREAM_MAX_ERRORS, TRUE)
    /\ \E items \in EventStreams : wire = IterInit(items)
    /\ returned = <<>>
    /\ TwinIdle

\* one chunk of resp.aiter_bytes() through parse_stream and lines 385-390
IterEventsPass ==
    /\ wire.via = "iter_events"
    /\ wire.reading
    /\ \E n \in { k \in 1..Len(wire.rest) : k \in ChunkLengths \/ k = Len(wire.rest) } :
       \E r \in { feed(decoder, Take(wire.rest, n)) } :
          /\ decoder' = r.d
          /\ returned' = returned \o r.returned
          /\ wire' = [wire EXCEPT !.rest = Drop(@, n), !.fed = @ \o Take(wire.rest, n),
                                  !.feeds = Min(@ + 1, 2),
                                  !.reading = r.d.state # "STOPPED",
                                  !.events = @ \o iter_events(r.returned)]
    /\ UNCHANGED twin
    /\ UNCHANGED notDecoderVars

ForwardNext == IterEventsPass

(* A feed call taken one pass of its loop at a time: wire.via is "steps"    *)
(* between two calls and "loop" while a call is inside its while loop.      *)

LoopEnvInit ==
    /\ \E max_errors \in MaxErrorsChoices, validate_crc \in BOOLEAN :
          decoder = DecoderInit(max_errors, validate_crc)
    /\ \E items \in ErrorStreams : wire = [WireInit(items) EXCEPT !.via = "steps"]
    /\ returned = <<>>
    /\ TwinIdle

\* feed, lines 79-83: the call with the next n bytes, up to the loop
FeedEnter ==
    /\ wire.via = "steps"
    /\ \E n \in { k \in 1..Len(wire.rest) : k \in ChunkLengths \/ k = Len(wire.rest) } :
          /\ decoder' = IF decoder.state = "STOPPED" THEN decoder
                        ELSE [decoder EXCEPT !.buffer = @ \o Take(wire.rest, n)]
          /\ wire' = [wire EXCEPT !.rest = Drop(@, n), !.fed = @ \o Take(wire.rest, n),
                                  !.feeds = Min(@ + 1, 2),
                                  !.late = Min(@ + (IF decoder.state = "STOPPED"
                                                    THEN 1 ELSE 0), 2),
                                  !.via = IF decoder.state = "STOPPED"
                                          THEN "steps" ELSE "loop"]
    /\ UNCHANGED <<returned, twin>>
    /\ UNCHANGED notDecoderVars

\* feed, lines 85-112: one pass of the while True loop; the call returns when
\* the pass leaves the loop
FeedPass ==
    /\ wire.via = "loop"
    /\ \E t \in { FeedStep([d |-> decoder, returned |-> <<>>, done |-> FALSE]) } :
          /\ decoder' = t.d
          /\ returned' = returned \o t.returned
          /\ wire' = [wire EXCEPT !.via = IF t.done THEN "steps" ELSE "loop"]
    /\ UNCHANGED twin
    /\ UNCHANGED notDecoderVars

LoopNext ==
    \/ FeedEnter
    \/ FeedPass

(* Two decoders built with validate_crc = False read two streams that differ *)
(* only in the values of the prelude_crc and message_crc fields of their     *)
(* frames, cut into chunks at the same places.                               *)

\* the frame with other values in its two CRC fields: one byte of each changed,
\* or both fields zero
AlterCrcs(frame, how) ==
    IF how = "flip" THEN Corrupt(Corrupt(frame, 9), Len(frame))
    ELSE Take(frame, 8) \o <<0, 0, 0, 0>> \o Slice(frame, 12, Len(frame) - 4)
             \o <<0, 0, 0, 0>>

RECURSIVE TwinBytes(_, _)
TwinBytes(items, how) ==
    IF items = <<>> THEN <<>>
    ELSE (IF Head(items) \in GarbageItems THEN ItemBytes(Head(items))
          ELSE AlterCrcs(ItemBytes(Head(items)), how))
         \o TwinBytes(Tail(items), how)

\* frames alone and in pairs, with a bad CRC or not, with a garbage byte before
\* or between them
CrcStreams ==
    { <<a>> : a \in WireItems \ GarbageItems }
    \cup { <<a, b>> : a \in WireItems, b \in WireItems \ GarbageItems }
    \cup Separated

CrcEnvInit ==
    /\ \E max_errors \in MaxErrorsChoices, items \in CrcStreams, how \in {"flip", "zero"} :
          /\ decoder = DecoderInit(max_errors, FALSE)
          /\ wire = WireInit(items)
          /\ twin = TwinInit(DecoderInit(max_errors, FALSE), TwinBytes(items, how))
    /\ returned = <<>>

\* one feed call on each decoder with the next n bytes of its stream
FeedBothCall(n, r, t) ==
    /\ decoder' = r.d
    /\ returned' = returned \o r.returned
    /\ wire' = [wire EXCEPT !.rest = Drop(@, n), !.fed = @ \o Take(wire.rest, n),
                            !.feeds = Min(@ + 1, 2),
                            !.late = Min(@ + (IF decoder.state = "STOPPED" THEN 1 ELSE 0), 2)]
    /\ twin' = [d |-> t.d, rest |-> Drop(twin.rest, n),
                returned |-> twin.returned \o t.returned]
    /\ UNCHANGED notDecoderVars

FeedBoth ==
    \E n \in { k \in 1..Len(wire.rest) : k \in ChunkLengths \/ k = Len(wire.rest) } :
        FeedBothCall(n, feed(decoder, Take(wire.rest, n)), feed(twin.d, Take(twin.rest, n)))

CrcNext == FeedBoth

(* A decoder is flooded: the stream is a long run of bytes that hold no     *)
(* frame, around the 16 KiB at which a failed recovery cuts the buffer,     *)
(* read in blocks of some KiB, alone or followed by a frame.                *)

Junk(n, b) == [i \in 1..n |-> b]

JunkLengths ==
    {RECOVER_BUFFER_LIMIT - 1, RECOVER_BUFFER_LIMIT, RECOVER_BUFFER_LIMIT + 1,
     RECOVER_BUFFER_LIMIT + 2, RECOVER_BUFFER_LIMIT + 12,
     RECOVER_BUFFER_LIMIT + RECOVER_BUFFER_KEPT, 2 * RECOVER_BUFFER_LIMIT + 2}

FloodStreams ==
    { Junk(n, b) \o tail :
        n \in JunkLengths, b \in {0, 255}, tail \in {<<>>, FrameOne} }

BlockLengths == {4 * 1024, 8 * 1024, RECOVER_BUFFER_LIMIT + 1}

BlockInit(bytes) == [WireInit(<<>>) EXCEPT !.rest = bytes, !.via = "blocks"]

FloodEnvInit ==
    /\ \E validate_crc \in BOOLEAN, bytes \in FloodStreams :
          /\ decoder = DecoderInit(PARSE_STREAM_MAX_ERRORS, validate_crc)
          /\ wire = BlockInit(bytes)
    /\ returned = <<>>
    /\ TwinIdle

\* one feed call with the next block of the stream
FeedBlock ==
    /\ wire.via = "blocks"
    /\ \E n \in { k \in 1..Len(wire.rest) : k \in BlockLengths \/ k = Len(wire.rest) } :
          FeedCall(Take(wire.rest, n), feed(decoder, Take(wire.rest, n)))

FloodNext == FeedBlock

------------------------------------------------------------------------------
(* Request transcoder (claude_converter.py).                                 *)
(*                                                                           *)
(* A Claude message is [role, content]; a content is either a Python str,    *)
(* [str |-> TRUE, text], or a list of blocks, [str |-> FALSE, blocks].  A    *)
(* text is a sequence of characters, the thinking hint being one token.  A   *)
(* dict with an optional list-valued key (toolResults, toolUses, tools)     *)
(* carries the empty sequence when the key is absent: the code only stores  *)
(* a non-empty list and only tests the key for truth.  Requests are taken   *)
(* without images.                                                           *)

THINKING_HINT == <<"HINT">>

Whitespace == {" ", "\n", "\r", "\t"}

RECURSIVE LStrip(_)
LStrip(s) ==
    IF s # <<>> /\ Head(s) \in Whitespace THEN LStrip(Tail(s)) ELSE s

RECURSIVE RStrip(_)
RStrip(s) ==
    IF s # <<>> /\ s[Len(s)] \in Whitespace
    THEN RStrip(Take(s, Len(s) - 1)) ELSE s

Strip(s) == LStrip(RStrip(s))

EndsWith(s, suffix) ==
    /\ Len(suffix) <= Len(s)
    /\ Drop(s, Len(s) - Len(suffix)) = suffix

Contains(s, sub) == StrFind(s, sub, 0) # -1

\* str.replace(sub, "")
RECURSIVE StrRemove(_, _)
StrRemove(s, sub) ==
    IF StrFind(s, sub, 0) = -1 THEN s
    ELSE Take(s, StrFind(s, sub, 0))
         \o StrRemove(Drop(s, StrFind(s, sub, 0) + Len(sub)), sub)

\* sep.join(parts)
RECURSIVE Join(_, _)
Join(parts, sep) ==
    IF parts = <<>> THEN <<>>
    ELSE IF Len(parts) = 1 THEN parts[1]
    ELSE parts[1] \o sep \o Join(Tail(parts), sep)

_wrap_thinking_content(thinking_text) ==
    THINKING_START_TAG \o thinking_text \o THINKING_END_TAG

_append_thinking_hint(text, hint) ==
    IF EndsWith(RStrip(text), hint) THEN text
    ELSE IF text = <<>> THEN hint
    ELSE IF text[Len(text)] \in {"\n", "\r"} THEN text \o hint
    ELSE text \o <<"\n">> \o hint

\* The text and thinking blocks of a block list, in order, as text parts.
RECURSIVE TextParts(_)
TextParts(blocks) ==
    IF blocks = <<>> THEN <<>>
    ELSE IF Head(blocks).type = "text"
         THEN <<Head(blocks).text>> \o TextParts(Tail(blocks))
    ELSE IF Head(blocks).type = "thinking"
         THEN <<_wrap_thinking_content(Head(blocks).thinking)>>
              \o TextParts(Tail(blocks))
    ELSE TextParts(Tail(blocks))

extract_text_from_content(content) ==
    IF content.str THEN content.text
    ELSE Join(TextParts(content.blocks), <<"\n">>)

\* One tool_result block as a toolResults entry; the block's content is a
\* str and its status is unset, so the status comes from is_error.
EmptyResultText(block) ==
    IF ~block.is_error THEN <<"Command executed successfully">>
    ELSE <<"Tool use was cancelled by the user">>

AqContent(block) ==
    IF Strip(block.content) = <<>> THEN <<[text |-> EmptyResultText(block)]>>
    ELSE <<[text |-> block.content]>>

ResultStatus(block) == IF block.is_error THEN "error" ELSE "success"

\* Position of the first entry of tool_results with this toolUseId, else 0.
ExistingResult(tool_results, tool_use_id) ==
    IF \E i \in 1..Len(tool_results) :
           tool_results[i].toolUseId = tool_use_id
    THEN CHOOSE i \in 1..Len(tool_results) :
           /\ tool_results[i].toolUseId = tool_use_id
           /\ \A j \in 1..(i - 1) : tool_results[j].toolUseId # tool_use_id
    ELSE 0

MergeResult(existing, block) ==
    [existing EXCEPT
        !.content = @ \o AqContent(block),
        !.status = IF ResultStatus(block) = "error" THEN "error" ELSE @]

AddToolResult(tool_results, block, at) ==
    IF at # 0
    THEN [tool_results EXCEPT ![at] = MergeResult(@, block)]
    ELSE Append(tool_results,
                [toolUseId |-> block.tool_use_id,
                 content   |-> AqContent(block),
                 status    |-> ResultStatus(block)])

RECURSIVE CollectToolResults(_, _)
CollectToolResults(tool_results, blocks) ==
    IF blocks = <<>> THEN tool_results
    ELSE IF Head(blocks).type = "tool_result"
         THEN CollectToolResults(
                  AddToolResult(tool_results, Head(blocks),
                                ExistingResult(tool_results,
                                               Head(blocks).tool_use_id)),
                  Tail(blocks))
    ELSE CollectToolResults(tool_results, Tail(blocks))

Range(s) == {s[i] : i \in 1..Len(s)}

\* Keys of the dict {r.get("toolUseId"): r for r in tool_results if ...}, in
\* insertion order: the truthy ids by first occurrence.
RECURSIVE ResultKeys(_, _)
ResultKeys(tool_results, keys) ==
    IF tool_results = <<>> THEN keys
    ELSE IF Head(tool_results).toolUseId # None
            /\ Head(tool_results).toolUseId \notin Range(keys)
         THEN ResultKeys(Tail(tool_results),
                         Append(keys, Head(tool_results).toolUseId))
    ELSE ResultKeys(Tail(tool_results), keys)

\* Value of that dict at a key: the last result carrying the id.
ResultById(tool_results, id) ==
    tool_results[CHOOSE i \in 1..Len(tool_results) :
        /\ tool_results[i].toolUseId = id
        /\ \A j \in (i + 1)..Len(tool_results) :
               tool_results[j].toolUseId # id]

\* The loop over tool_use_order: each id still in the dict is popped.
RECURSIVE PopInOrder(_, _, _)
PopInOrder(tool_use_order, keys, popped) ==
    IF tool_use_order = <<>> THEN popped
    ELSE IF Head(tool_use_order) \in Range(keys) \ Range(popped)
         THEN PopInOrder(Tail(tool_use_order), keys,
                         Append(popped, Head(tool_use_order)))
    ELSE PopInOrder(Tail(tool_use_order), keys, popped)

RemainingKeys(keys, popped) ==
    LET Left(k) == k \notin Range(popped) IN SelectSeq(keys, Left)

RECURSIVE ResultsOfKeys(_, _)
ResultsOfKeys(tool_results, keys) ==
    IF keys = <<>> THEN <<>>
    ELSE <<ResultById(tool_results, Head(keys))>>
         \o ResultsOfKeys(tool_results, Tail(keys))

ResultsWithoutId(tool_results) ==
    LET NoId(r) == r.toolUseId = None IN SelectSeq(tool_results, NoId)

\* lines 299-302 alone: the results named by tool_use_order
ReorderByKeys_OrderedOnly(tool_results, keys, popped) ==
    ResultsOfKeys(tool_results, popped)

ReorderByKeys(tool_results, keys, popped) ==
    ResultsOfKeys(tool_results, popped \o RemainingKeys(keys, popped))
    \o ResultsWithoutId(tool_results)

_reorder_tool_results_by_tool_uses(tool_results, tool_use_order) ==
    IF tool_use_order = <<>> \/ tool_results = <<>> THEN tool_results
    ELSE ReorderByKeys(tool_results, ResultKeys(tool_results, <<>>),
                       PopInOrder(tool_use_order,
                                  ResultKeys(tool_results, <<>>), <<>>))

\* merge_user_messages on a non-empty list of userInputMessage values.
RECURSIVE AllToolResults(_)
AllToolResults(messages) ==
    IF messages = <<>> THEN <<>>
    ELSE Head(messages).toolResults \o AllToolResults(Tail(messages))

RECURSIVE AllContents(_, _)
AllContents(messages, hint) ==
    IF messages = <<>> THEN <<>>
    ELSE IF Head(messages).content # <<>>
            /\ Strip(StrRemove(Head(messages).content, hint)) # <<>>
         THEN <<Strip(StrRemove(Head(messages).content, hint))>>
              \o AllContents(Tail(messages), hint)
    ELSE AllContents(Tail(messages), hint)

MergedContent(messages, hint, merged_content) ==
    IF \E i \in 1..Len(messages) : Contains(messages[i].content, hint)
    THEN _append_thinking_hint(merged_content, hint)
    ELSE merged_content

merge_user_messages(messages, hint) ==
    [content     |-> MergedContent(messages, hint,
                         Join(AllContents(messages, hint), <<"\n", "\n">>)),
     toolResults |-> AllToolResults(messages)]

\* process_history, first pass.  s = [raw_history, seen_tool_use_ids,
\* last_tool_use_order].
UserTextOf(content) ==
    IF content.str THEN extract_text_from_content(content)
    ELSE Join(TextParts(content.blocks), <<"\n">>)

UserResultsOf(content) ==
    IF content.str THEN <<>> ELSE CollectToolResults(<<>>, content.blocks)

UserEntry(text_content, tool_results) ==
    [userInputMessage |-> [content |-> text_content, toolResults |-> tool_results]]

\* lines 397-398: the hint is appended when thinking is enabled
HintedText(s, text_content) ==
    IF s.thinking_enabled THEN _append_thinking_hint(text_content, s.hint)
    ELSE text_content

ConvertUser(s, msg) ==
    [s EXCEPT !.raw_history = Append(@,
        UserEntry(HintedText(s, UserTextOf(msg.content)),
                  _reorder_tool_results_by_tool_uses(
                      UserResultsOf(msg.content), s.last_tool_use_order)))]

\* The tool_use loop of an assistant message.  u = [seen, order, tool_uses].
RECURSIVE CollectToolUses(_, _)
CollectToolUses(u, blocks) ==
    IF blocks = <<>> THEN u
    ELSE IF /\ Head(blocks).type = "tool_use"
            /\ Head(blocks).id # None
            /\ Head(blocks).id \notin u.seen
         THEN CollectToolUses(
                  [seen      |-> u.seen \cup {Head(blocks).id},
                   order     |-> Append(u.order, Head(blocks).id),
                   tool_uses |-> Append(u.tool_uses,
                                    [toolUseId |-> Head(blocks).id,
                                     name      |-> Head(blocks).name,
                                     input     |-> Head(blocks).input])],
                  Tail(blocks))
    ELSE CollectToolUses(u, Tail(blocks))

AssistantEntry(content, tool_uses) ==
    [assistantResponseMessage |->
        [content  |-> extract_text_from_content(content),
         toolUses |-> tool_uses]]

AssistantDone(s, msg, u) ==
    [raw_history         |-> Append(s.raw_history,
                                    AssistantEntry(msg.content, u.tool_uses)),
     seen_tool_use_ids   |-> u.seen,
     last_tool_use_order |-> u.order,
     thinking_enabled    |-> s.thinking_enabled,
     hint                |-> s.hint]

ConvertAssistant(s, msg) ==
    AssistantDone(s, msg,
        CollectToolUses(
            [seen |-> s.seen_tool_use_ids, order |-> <<>>, tool_uses |-> <<>>],
            IF msg.content.str THEN <<>> ELSE msg.content.blocks))

RECURSIVE FirstPass(_, _)
FirstPass(s, messages) ==
    IF messages = <<>> THEN s
    ELSE IF Head(messages).role = "user"
         THEN FirstPass(ConvertUser(s, Head(messages)), Tail(messages))
    ELSE IF Head(messages).role = "assistant"
         THEN FirstPass(ConvertAssistant(s, Head(messages)), Tail(messages))
    ELSE FirstPass(s, Tail(messages))

IsUser(item) == "userInputMessage" \in DOMAIN item

IsAssistant(item) == "assistantResponseMessage" \in DOMAIN item

has_consecutive_same_role(raw_history) ==
    \E i \in 1..(Len(raw_history) - 1) :
        IsUser(raw_history[i]) = IsUser(raw_history[i + 1])

\* process_history, second pass.  m = [history, pending_user_msgs].
Flush(m, hint) ==
    IF m.pending_user_msgs = <<>> THEN m
    ELSE [history |-> Append(m.history,
              [userInputMessage |->
                  merge_user_messages(m.pending_user_msgs, hint)]),
          pending_user_msgs |-> <<>>]

AppendItem(m, item) == [m EXCEPT !.history = Append(@, item)]

\* a second pass that does not flush before a user message with tool results
\* (not the code)
MergeStep_NoFlush(m, item, hint) ==
    IF IsUser(item)
    THEN IF item.userInputMessage.toolResults # <<>>
         THEN AppendItem(m, item)
         ELSE [m EXCEPT !.pending_user_msgs =
                            Append(@, item.userInputMessage)]
    ELSE IF IsAssistant(item) THEN AppendItem(Flush(m, hint), item)
    ELSE m

MergeStep(m, item, hint) ==
    IF IsUser(item)
    THEN IF item.userInputMessage.toolResults # <<>>
         THEN AppendItem(Flush(m, hint), item)
         ELSE [m EXCEPT !.pending_user_msgs =
                            Append(@, item.userInputMessage)]
    ELSE IF IsAssistant(item) THEN AppendItem(Flush(m, hint), item)
    ELSE m

RECURSIVE SecondPass(_, _, _)
SecondPass(m, raw_history, hint) ==
    IF raw_history = <<>> THEN Flush(m, hint).history
    ELSE SecondPass(MergeStep(m, Head(raw_history), hint),
                    Tail(raw_history), hint)

MergeIfNeeded(raw_history, hint) ==
    IF ~has_consecutive_same_role(raw_history) THEN raw_history
    ELSE SecondPass([history |-> <<>>, pending_user_msgs |-> <<>>],
                    raw_history, hint)

process_history(messages, thinking_enabled, hint) ==
    MergeIfNeeded(
        FirstPass([raw_history         |-> <<>>,
                   seen_tool_use_ids   |-> {},
                   last_tool_use_order |-> <<>>,
                   thinking_enabled    |-> thinking_enabled,
                   hint                |-> hint], messages).raw_history,
        hint)

\* _validate_history_alternation: TRUE when it raises.  prev_role is None
\* before the first entry.
RoleOf(item) ==
    IF IsUser(item) THEN "user"
    ELSE IF IsAssistant(item) THEN "assistant" ELSE None

RECURSIVE AlternationRaises(_, _)
AlternationRaises(history, prev_role) ==
    IF history = <<>> THEN FALSE
    ELSE IF RoleOf(Head(history)) = None
         THEN AlternationRaises(Tail(history), prev_role)
    ELSE IF prev_role = RoleOf(Head(history)) THEN TRUE
    ELSE AlternationRaises(Tail(history), RoleOf(Head(history)))

_validate_history_alternation_Silent(history) == FALSE

_validate_history_alternation(history) == AlternationRaises(history, None)

\* json.dumps(input, sort_keys=True) of a dict given as its items in
\* insertion order, keys being single letters and values digits.
Letters == <<"a", "b", "c">>

Digits == <<"0", "1", "2", "3", "4", "5", "6", "7", "8", "9">>

CharRank(c) == CHOOSE i \in 1..Len(Letters) : Letters[i] = c

RECURSIVE InsertItem(_, _)
InsertItem(sorted, item) ==
    IF sorted = <<>> THEN <<item>>
    ELSE IF CharRank(item[1]) < CharRank(Head(sorted)[1])
         THEN <<item>> \o sorted
    ELSE <<Head(sorted)>> \o InsertItem(Tail(sorted), item)

RECURSIVE SortItems(_, _)
SortItems(items, sorted) ==
    IF items = <<>> THEN sorted
    ELSE SortItems(Tail(items), InsertItem(sorted, Head(items)))

RECURSIVE DumpItems(_)
DumpItems(items) ==
    IF items = <<>> THEN <<>>
    ELSE <<<<"\"", Head(items)[1], "\"", ":", " ", Digits[Head(items)[2] + 1]>>>>
         \o DumpItems(Tail(items))

json_dumps(input) ==
    <<"{">> \o Join(DumpItems(SortItems(input, <<>>)), <<",", " ">>) \o <<"}">>

\* _detect_tool_call_loop.  c = [consecutive_count, last_tool_call]; a call
\* is <<name, dumped input>> and the empty tuple stands for None.
LOOP_WINDOW == 10

LOOP_THRESHOLD == 3

CountCall(c, current_call) ==
    IF current_call = c.last_tool_call
    THEN [c EXCEPT !.consecutive_count = @ + 1]
    ELSE [consecutive_count |-> 1, last_tool_call |-> current_call]

RECURSIVE CountBlocks(_, _)
CountBlocks(c, blocks) ==
    IF blocks = <<>> THEN c
    ELSE IF Head(blocks).type = "tool_use"
         THEN CountBlocks(
                  CountCall(c, <<Head(blocks).name,
                                 json_dumps(Head(blocks).input)>>),
                  Tail(blocks))
    ELSE CountBlocks(c, Tail(blocks))

LoopReset == [consecutive_count |-> 0, last_tool_call |-> <<>>]

RECURSIVE CountMessages(_, _)
CountMessages(c, messages) ==
    IF messages = <<>> THEN c
    ELSE IF Head(messages).role = "assistant" /\ ~Head(messages).content.str
         THEN CountMessages(CountBlocks(c, Head(messages).content.blocks),
                            Tail(messages))
    ELSE IF Head(messages).role = "user"
         THEN CountMessages(LoopReset, Tail(messages))
    ELSE CountMessages(c, Tail(messages))

\* messages[-n:]
LastN(messages, n) ==
    IF Len(messages) <= n THEN messages ELSE Drop(messages, Len(messages) - n)

\* TRUE when a loop error is returned.
_detect_tool_call_loop(messages, threshold) ==
    CountMessages(LoopReset, LastN(messages, LOOP_WINDOW)).consecutive_count
        >= threshold

\* convert_claude_to_amazonq_request.  The outcome is [kind |-> "payload",
\* conversationState |-> ...] or an error, [kind |-> "LoopDetected"] or
\* [kind |-> "MalformedHistory"] (both are ValueError in the code).
CurrentResults(messages) ==
    IF messages # <<>> /\ messages[Len(messages)].role = "user"
    THEN UserResultsOf(messages[Len(messages)].content)
    ELSE <<>>

RECURSIVE ToolUseIds(_)
ToolUseIds(blocks) ==
    IF blocks = <<>> THEN <<>>
    ELSE IF Head(blocks).type = "tool_use" /\ Head(blocks).id # None
         THEN <<Head(blocks).id>> \o ToolUseIds(Tail(blocks))
    ELSE ToolUseIds(Tail(blocks))

\* The tool_use ids of the last assistant message at index i or below.
RECURSIVE LastAssistantOrder(_, _)
LastAssistantOrder(messages, i) ==
    IF i < 1 THEN <<>>
    ELSE IF messages[i].role = "assistant"
         THEN IF messages[i].content.str THEN <<>>
              ELSE ToolUseIds(messages[i].content.blocks)
    ELSE LastAssistantOrder(messages, i - 1)

(* The option fields of the request: thinking and model.  A value of the   *)
(* request is a Python value: None, a bool, a str, an int, a float (in      *)
(* tenths) or a dict with the keys type, enabled and budget_tokens, each of *)
(* which may be absent.  Model names are strings.                           *)

PyAbsent == [py |-> "absent"]

PyNone == [py |-> "none"]

PyBool(b) == [py |-> "bool", b |-> b]

PyStr(s) == [py |-> "str", s |-> s]

PyInt(n) == [py |-> "int", n |-> n]

PyFloat(tenths) == [py |-> "float", n |-> tenths]

PyDict(type, enabled, budget_tokens) ==
    [py |-> "dict", type |-> type, enabled |-> enabled,
     budget_tokens |-> budget_tokens]

UPPERCASE == "ABCDEFGHIJKLMNOPQRSTUVWXYZ"

LOWERCASE == "abcdefghijklmnopqrstuvwxyz"

LowerChar(c) ==
    IF \E i \in 1..Len(UPPERCASE) : SubSeq(UPPERCASE, i, i) = c
    THEN LET i == CHOOSE i \in 1..Len(UPPERCASE) : SubSeq(UPPERCASE, i, i) = c
         IN  SubSeq(LOWERCASE, i, i)
    ELSE c

\* str.lower()
RECURSIVE str_lower(_)
str_lower(s) ==
    IF Len(s) <= 1 THEN LowerChar(s)
    ELSE LET half == Len(s) \div 2
         IN  str_lower(SubSeq(s, 1, half)) \o str_lower(SubSeq(s, half + 1, Len(s)))

RECURSIVE str_lstrip(_)
str_lstrip(s) ==
    IF s # "" /\ SubSeq(s, 1, 1) \in Whitespace
    THEN str_lstrip(SubSeq(s, 2, Len(s))) ELSE s

RECURSIVE str_rstrip(_)
str_rstrip(s) ==
    IF s # "" /\ SubSeq(s, Len(s), Len(s)) \in Whitespace
    THEN str_rstrip(SubSeq(s, 1, Len(s) - 1)) ELSE s

\* str.strip()
str_strip(s) == str_lstrip(str_rstrip(s))

\* str.endswith(suffix)
str_endswith(s, suffix) ==
    /\ Len(s) >= Len(suffix)
    /\ SubSeq(s, Len(s) - Len(suffix) + 1, Len(s)) = suffix

DIGITS == "0123456789"

RECURSIVE NatStr(_)
NatStr(n) ==
    IF n < 10 THEN SubSeq(DIGITS, n + 1, n + 1)
    ELSE NatStr(n \div 10) \o SubSeq(DIGITS, (n % 10) + 1, (n % 10) + 1)

\* str(value) of the values a type field is given
PyStrOf(v) ==
    CASE v.py = "str"  -> v.s
      [] v.py = "none" -> "None"
      [] v.py = "bool" -> IF v.b THEN "True" ELSE "False"
      [] v.py = "int"  -> IF v.n < 0 THEN "-" \o NatStr(0 - v.n) ELSE NatStr(v.n)

\* dict.get(key, default)
DictGet(d, key, default) == IF d[key].py = "absent" THEN default ELSE d[key]

\* isinstance(budget, (int, float)) and budget > 0; a bool is an int (True is 1)
PositiveNumber(budget) ==
    \/ budget.py \in {"int", "float"} /\ budget.n > 0
    \/ budget.py = "bool" /\ budget.b

\* lines 44-49: the enabled flag, when a bool, decides; else the budget
EnabledFlagOrBudget(enabled_flag, budget) ==
    IF enabled_flag.py = "bool" THEN enabled_flag.b
    ELSE PositiveNumber(budget)

\* lines 32-50
is_thinking_mode_enabled(thinking_cfg) ==
    IF thinking_cfg.py = "none" THEN FALSE
    ELSE IF thinking_cfg.py = "bool" THEN thinking_cfg.b
    ELSE IF thinking_cfg.py = "str" THEN str_lower(thinking_cfg.s) = "enabled"
    ELSE IF thinking_cfg.py = "dict"
    THEN IF str_lower(PyStrOf(DictGet(thinking_cfg, "type", PyStr("")))) = "enabled"
         THEN TRUE
         ELSE EnabledFlagOrBudget(DictGet(thinking_cfg, "enabled", PyNone),
                                  DictGet(thinking_cfg, "budget_tokens", PyNone))
    ELSE FALSE

\* lines 70-132
DEFAULT_MODEL == "claude-sonnet-4.5"

VALID_MODELS == {"auto", "claude-sonnet-4.5", "claude-haiku-4.5", "claude-opus-4.5"}

CANONICAL_TO_SHORT ==
    [name \in {"claude-sonnet-4-20250514", "claude-sonnet-4-5-20250929",
               "claude-opus-4-5-20251101", "claude-3-5-sonnet-20241022",
               "claude-3-5-sonnet-20240620", "claude-sonnet-4-5",
               "claude-opus-4-5"} |->
        IF name \in {"claude-opus-4-5-20251101", "claude-opus-4-5"}
        THEN "claude-opus-4.5" ELSE "claude-sonnet-4.5"]

MAX_MODEL_LENGTH == 100

THINKING_SUFFIX == "-thinking"

\* a short-name test without the exclusion of "auto" (not the code)
IsShortName_Auto(model_normalized) == model_normalized \in VALID_MODELS

\* line 121: a valid short name, but not "auto"
IsShortName(model_normalized) ==
    model_normalized \in VALID_MODELS /\ model_normalized # "auto"

\* lines 120-132, with the suffix removed
MapNormalized(model_normalized, thinking_requested) ==
    IF IsShortName(model_normalized)
    THEN <<model_normalized, thinking_requested>>
    ELSE IF model_normalized \in DOMAIN CANONICAL_TO_SHORT
    THEN <<CANONICAL_TO_SHORT[model_normalized], thinking_requested>>
    ELSE <<DEFAULT_MODEL, thinking_requested>>

\* lines 114-118: model_normalized[:-9] when it ends with "-thinking"
MapSuffixed(model_normalized) ==
    IF str_endswith(model_normalized, THINKING_SUFFIX)
    THEN MapNormalized(SubSeq(model_normalized, 1, Len(model_normalized) - 9), TRUE)
    ELSE MapNormalized(model_normalized, FALSE)

\* lines 108-112 (the model of a ClaudeRequest is a str: claude_types.py line 20)
MapStripped(model_normalized) ==
    IF Len(model_normalized) > MAX_MODEL_LENGTH THEN <<DEFAULT_MODEL, FALSE>>
    ELSE MapSuffixed(model_normalized)

map_model_name(claude_model) == MapStripped(str_lower(str_strip(claude_model)))

\* lines 637-645: thinking_enabled
ThinkingEnabled(req) ==
    is_thinking_mode_enabled(req.thinking) \/ map_model_name(req.model)[2]

\* lines 662-730: prompt_content and has_tool_result of the last message
PromptContent(messages) ==
    IF messages # <<>> /\ messages[Len(messages)].role = "user"
    THEN UserTextOf(messages[Len(messages)].content)
    ELSE <<>>

HasToolResult(messages) ==
    /\ messages # <<>>
    /\ messages[Len(messages)].role = "user"
    /\ ~messages[Len(messages)].content.str
    /\ \E k \in DOMAIN messages[Len(messages)].content.blocks :
          messages[Len(messages)].content.blocks[k].type = "tool_result"

\* A tool of the request (ClaudeTool): description, type and max_uses may be
\* None.  req.tools is a list; the empty list stands for None as well, since
\* the code reads req.tools only through its truth value.
PyText(text) == [py |-> "str", text |-> text]

PyList(blocks) == [py |-> "list", blocks |-> blocks]

ClaudeTool(name, description, type, max_uses) ==
    [name |-> name, description |-> description, type |-> type,
     max_uses |-> max_uses, input_schema |-> PyNone]

str_startswith(s, prefix) ==
    /\ Len(s) >= Len(prefix)
    /\ SubSeq(s, 1, Len(prefix)) = prefix

\* claude_types.py: ClaudeTool.is_web_search
is_web_search(tool) ==
    tool.type.py # "none" /\ str_startswith(tool.type.s, "web_search")

DESCRIPTION_LIMIT == 10240

DESCRIPTION_KEPT == 10100

SEE_TOOL_DOCUMENTATION ==
    <<"\n", "\n", "...(Full description provided in TOOL DOCUMENTATION section)">>

\* tool.description or ""
DescriptionOf(tool) ==
    IF tool.description.py = "none" THEN <<>> ELSE tool.description.text

WebSearchTool(tool) ==
    IF tool.max_uses.py # "none"
    THEN [type |-> tool.type.s, name |-> tool.name, max_uses |-> tool.max_uses.n]
    ELSE [type |-> tool.type.s, name |-> tool.name]

ToolSpecification(name, description, json) ==
    [toolSpecification |->
        [name |-> name, description |-> description,
         inputSchema |-> [json |-> json]]]

convert_tool(tool) ==
    IF is_web_search(tool) THEN WebSearchTool(tool)
    ELSE ToolSpecification(tool.name,
             IF Len(DescriptionOf(tool)) > DESCRIPTION_LIMIT
             THEN Take(DescriptionOf(tool), DESCRIPTION_KEPT) \o SEE_TOOL_DOCUMENTATION
             ELSE DescriptionOf(tool),
             tool.input_schema)

\* _validate_tool_pairing, the part that is returned and used: the
\* placeholder tools.  The blocks of the assistant messages in order:
RECURSIVE AssistantBlocks(_)
AssistantBlocks(messages) ==
    IF messages = <<>> THEN <<>>
    ELSE (IF Head(messages).role = "assistant" /\ ~Head(messages).content.str
          THEN Head(messages).content.blocks ELSE <<>>)
         \o AssistantBlocks(Tail(messages))

\* a block that sets tool_use_names[tid] = tname (lines 540-547)
NamesToolUse(block) ==
    block.type = "tool_use" /\ block.id # None /\ block.name # None

\* set(tool_use_names.values()): of the names given to an id, the last one
UsedToolNames(blocks) ==
    { blocks[i].name :
        i \in { k \in DOMAIN blocks :
                  /\ NamesToolUse(blocks[k])
                  /\ \A j \in (k + 1)..Len(blocks) :
                         ~(NamesToolUse(blocks[j]) /\ blocks[j].id = blocks[k].id) } }

DefinedToolNames(tools) == { tools[k].name : k \in DOMAIN tools }

MissingToolNames(messages, tools) ==
    UsedToolNames(AssistantBlocks(messages)) \ DefinedToolNames(tools)

\* the orders in which a set of names may be iterated
SetOrders(names) ==
    { order \in [1..Cardinality(names) -> names] : Range(order) = names }

PlaceholderTool(name) ==
    ToolSpecification(name, <<"[Auto-generated placeholder]", name>>,
                      [type |-> "object"])

\* lines 573-584: one placeholder for each missing name, in the order in
\* which the set of missing names is iterated, names_order
_validate_tool_pairing(messages, tools, names_order) ==
    [k \in 1..Len(names_order) |-> PlaceholderTool(names_order[k])]

\* lines 650-659: aq_tools and long_desc_tools
AqTools(req, names_order) ==
    [k \in 1..Len(req.tools) |-> convert_tool(req.tools[k])]
    \o _validate_tool_pairing(req.messages, req.tools, names_order)

IsLongDescTool(tool) ==
    tool.description.py # "none" /\ Len(tool.description.text) > DESCRIPTION_LIMIT

LongDescTools(tools) == SelectSeq(tools, IsLongDescTool)

\* lines 769-775: the context entry with the current time, as read from the
\* clock, the opening line of the user message section and its closing line
CONTEXT_ENTRY ==
    <<"--- CONTEXT ENTRY BEGIN ---", "Current time", "--- CONTEXT ENTRY END ---">>

USER_MESSAGE_BEGIN == <<"--- USER MESSAGE BEGIN ---">>

USER_MESSAGE_END == <<"--- USER MESSAGE END ---">>

\* lines 764-776
FormattedContent(messages) ==
    IF HasToolResult(messages) /\ PromptContent(messages) = <<>> THEN <<>>
    ELSE CONTEXT_ENTRY \o USER_MESSAGE_BEGIN \o PromptContent(messages)
         \o <<"\n">> \o USER_MESSAGE_END

TOOL_DOCUMENTATION_BEGIN == <<"--- TOOL DOCUMENTATION BEGIN ---">>

TOOL_DOCUMENTATION_END == <<"--- TOOL DOCUMENTATION END ---", "\n", "\n">>

RECURSIVE ToolDocs(_)
ToolDocs(long_desc_tools) ==
    IF long_desc_tools = <<>> THEN <<>>
    ELSE <<"Tool: ", Head(long_desc_tools).name, "\n", "Full Description:", "\n">>
         \o Head(long_desc_tools).description.text \o <<"\n">>
         \o ToolDocs(Tail(long_desc_tools))

\* lines 778-787
WithToolDocumentation(long_desc_tools, formatted_content) ==
    IF long_desc_tools = <<>> THEN formatted_content
    ELSE TOOL_DOCUMENTATION_BEGIN \o ToolDocs(long_desc_tools)
         \o TOOL_DOCUMENTATION_END \o formatted_content

SYSTEM_PROMPT_BEGIN == <<"--- SYSTEM PROMPT BEGIN ---">>

SYSTEM_PROMPT_END == <<"--- SYSTEM PROMPT END ---", "\n", "\n">>

RECURSIVE SystemParts(_)
SystemParts(blocks) ==
    IF blocks = <<>> THEN <<>>
    ELSE IF Head(blocks).type = "text"
         THEN <<Head(blocks).text>> \o SystemParts(Tail(blocks))
    ELSE SystemParts(Tail(blocks))

\* lines 790-798
SysText(system) ==
    IF system.py = "str" THEN system.text
    ELSE IF system.py = "list" THEN Join(SystemParts(system.blocks), <<"\n">>)
    ELSE <<>>

\* the truth value of req.system
SystemGiven(system) ==
    \/ system.py = "str" /\ system.text # <<>>
    \/ system.py = "list" /\ system.blocks # <<>>

\* lines 789-806
WithSystemPrompt(system, formatted_content) ==
    IF SystemGiven(system) /\ formatted_content # <<>> /\ SysText(system) # <<>>
    THEN SYSTEM_PROMPT_BEGIN \o SysText(system) \o <<"\n">>
         \o SYSTEM_PROMPT_END \o formatted_content
    ELSE formatted_content

\* lines 808-810: the hint appended to the whole formatted content
CurrentContent(req, thinking_enabled) ==
    IF thinking_enabled
    THEN _append_thinking_hint(
             WithSystemPrompt(req.system,
                 WithToolDocumentation(LongDescTools(req.tools),
                                       FormattedContent(req.messages))),
             THINKING_HINT)
    ELSE WithSystemPrompt(req.system,
             WithToolDocumentation(LongDescTools(req.tools),
                                   FormattedContent(req.messages)))

CurrentMessage(req, thinking_enabled, model_id, aq_tools) ==
    [userInputMessage |->
        [content     |-> CurrentContent(req, thinking_enabled),
         modelId     |-> model_id,
         tools       |-> aq_tools,
         toolResults |-> _reorder_tool_results_by_tool_uses(
                             CurrentResults(req.messages),
                             LastAssistantOrder(req.messages,
                                                Len(req.messages) - 1))]]

HistoryMessages(messages) ==
    IF Len(messages) > 1 THEN Take(messages, Len(messages) - 1) ELSE <<>>

BuildBody(req, thinking_enabled, model_id, aq_tools, aq_history) ==
    IF _validate_history_alternation(aq_history)
    THEN [kind |-> "MalformedHistory"]
    ELSE [kind |-> "payload",
          conversationState |->
              [history        |-> aq_history,
               currentMessage |-> CurrentMessage(req, thinking_enabled,
                                                 model_id, aq_tools)]]

ConvertChecked(req, thinking_enabled, model_id, names_order) ==
    BuildBody(req, thinking_enabled, model_id, AqTools(req, names_order),
              process_history(HistoryMessages(req.messages), thinking_enabled,
                              THINKING_HINT))

\* names_order: the order in which the set of missing tool names is iterated
convert_claude_to_amazonq_request(req, names_order) ==
    IF _detect_tool_call_loop(req.messages, LOOP_THRESHOLD)
    THEN [kind |-> "LoopDetected"]
    ELSE ConvertChecked(req, ThinkingEnabled(req), map_model_name(req.model)[1],
                        names_order)

(* The requests the transcoder is given: conversations of a few messages,   *)
(* and short conversations followed by text-only assistant turns up to and  *)
(* past the loop guard's window.                                            *)

MaxMessages == 5

MaxPaddedCore == 2

StrContent(text) == [str |-> TRUE, text |-> text]

ListContent(blocks) == [str |-> FALSE, blocks |-> blocks]

ToolUse(id, input) ==
    [type |-> "tool_use", id |-> id, name |-> "n", input |-> input]

ToolResult(tool_use_id) ==
    [type |-> "tool_result", tool_use_id |-> tool_use_id,
     content |-> <<"r">>, is_error |-> FALSE]

\* the same call twice, with the input's keys in a different order
UseA == ToolUse("A", <<<<"a", 1>>, <<"b", 2>>>>)

UseB == ToolUse("B", <<<<"b", 2>>, <<"a", 1>>>>)

\* a different call
UseOther == ToolUse("B", <<<<"a", 1>>>>)

UserText == [role |-> "user", content |-> StrContent(<<"t">>)]

UserResults ==
    [role |-> "user",
     content |-> ListContent(<<ToolResult("B"), ToolResult("A")>>)]

UserResultsNoId ==
    [role |-> "user",
     content |-> ListContent(<<ToolResult(None), ToolResult("B"),
                               ToolResult("A")>>)]

AsstText == [role |-> "assistant", content |-> StrContent(<<"x">>)]

AsstOne == [role |-> "assistant", content |-> ListContent(<<UseA>>)]

AsstThree ==
    [role |-> "assistant", content |-> ListContent(<<UseA, UseB, UseA>>)]

AsstOther == [role |-> "assistant", content |-> ListContent(<<UseOther>>)]

Messages ==
    {UserText, UserResults, UserResultsNoId,
     AsstText, AsstOne, AsstThree, AsstOther}

Conversations(n) == UNION { [1..k -> Messages] : k \in 0..n }

RECURSIVE Padding(_)
Padding(n) == IF n <= 0 THEN <<>> ELSE <<AsstText>> \o Padding(n - 1)

\* a core padded to exactly the window, or to one message more
Padded ==
    { core \o Padding(LOOP_WINDOW + extra - Len(core)) :
        core \in Conversations(MaxPaddedCore), extra \in {0, 1} }

Requests ==
    { [messages |-> m, model |-> DEFAULT_MODEL, thinking |-> PyNone,
       tools |-> <<>>, system |-> PyNone] :
        m \in Conversations(MaxMessages) \cup Padded }

Pending == [kind |-> "pending"]

ConverterInit ==
    /\ request \in Requests
    /\ outcome = Pending

\* requests in thinking mode or not, whose user texts may carry the hint already
\* (a client that sends back what it was shown, or adds the hint itself)
MaxThinkingMessages == 4

UserHinted == [role |-> "user", content |-> StrContent(<<"t", "\n">> \o THINKING_HINT)]

UserHintFirst == [role |-> "user", content |-> StrContent(THINKING_HINT \o <<" ", "t">>)]

ThinkingMessages == {UserText, UserHinted, UserHintFirst, UserResults, AsstText}

ThinkingRequests ==
    { [messages |-> m, model |-> DEFAULT_MODEL, thinking |-> th,
       tools |-> <<>>, system |-> PyNone] :
        m \in UNION { [1..k -> ThinkingMessages] : k \in 1..MaxThinkingMessages },
        th \in {PyNone, PyDict(PyStr("enabled"), PyAbsent, PyAbsent)} }

ThinkingInit ==
    /\ request \in ThinkingRequests
    /\ outcome = Pending

\* requests whose option fields vary: model names in any case, padded with
\* whitespace, with and without the suffix, known, unknown, empty and at the
\* length limit; thinking settings of every type
RECURSIVE Repeat(_, _)
Repeat(c, n) ==
    IF n <= 0 THEN "" ELSE IF n = 1 THEN c
    ELSE Repeat(c, n \div 2) \o Repeat(c, n - n \div 2)

BaseNames ==
    VALID_MODELS \cup DOMAIN CANONICAL_TO_SHORT \cup
    {"", "AUTO", "Claude-Haiku-4.5", "CLAUDE-OPUS-4-5", "claude-sonnet-4",
     "claude-opus-4.5 x", "gpt-4", "claude-opus-4.5-thinking",
     Repeat("a", MAX_MODEL_LENGTH - 9), Repeat("a", MAX_MODEL_LENGTH - 8),
     Repeat("a", MAX_MODEL_LENGTH + 1)}

ModelNames ==
    { left \o base \o suffix \o right :
        left \in {"", " "}, base \in BaseNames,
        suffix \in {"", THINKING_SUFFIX, "-Thinking"}, right \in {"", "\n\t"} }

TypeValues == {PyAbsent, PyNone, PyStr("enabled"), PyStr("Enabled"), PyStr("disabled")}

EnabledValues == {PyAbsent, PyNone, PyBool(TRUE), PyBool(FALSE), PyStr("enabled"), PyInt(1)}

BudgetValues ==
    {PyAbsent, PyNone, PyInt(0), PyInt(1024), PyInt(-1), PyFloat(5), PyBool(TRUE),
     PyStr("1024")}

ThinkingCfgs ==
    {PyNone, PyBool(TRUE), PyBool(FALSE), PyStr("enabled"), PyStr("ENABLED"),
     PyStr("disabled"), PyStr(""), PyInt(1)}
    \cup { PyDict(t, e, b) : t \in TypeValues, e \in EnabledValues, b \in BudgetValues }

\* every model name with a few settings, every setting with a few model names
OptionPairs ==
    (ModelNames \X {PyNone, PyBool(FALSE), PyDict(PyAbsent, PyBool(FALSE), PyInt(1024))})
    \cup ({"claude-opus-4.5", " AUTO-thinking\n\t", "gpt-4-Thinking"} \X ThinkingCfgs)

OptionRequests ==
    { [messages |-> <<UserText>>, model |-> pair[1], thinking |-> pair[2],
       tools |-> <<>>, system |-> PyNone] :
        pair \in OptionPairs }

OptionsInit ==
    /\ request \in OptionRequests
    /\ outcome = Pending

\* requests with tools and a system prompt: tools with a short description,
\* one at the length limit and one past it, web-search tools and a tool
\* without description; assistant messages whose tool_use blocks carry two
\* names, ids that repeat and fields that are missing
ToolUseNamed(id, name) ==
    [type |-> "tool_use", id |-> id, name |-> name, input |-> <<>>]

NamedUses == { ToolUseNamed(id, name) : id \in {"A", "B", None}, name \in {"n", "m", None} }

AsstNamed ==
    { [role |-> "assistant", content |-> ListContent(blocks)] :
        blocks \in [1..1 -> NamedUses] \cup [1..2 -> NamedUses] }

ToolConversations ==
    {<<UserText>>}
    \cup { <<UserText, asst, last>> : asst \in AsstNamed, last \in {UserText, UserResults} }

ToolShort == ClaudeTool("n", PyText(<<"d">>), PyNone, PyNone)

ToolAtLimit == ClaudeTool("n", PyText(Junk(DESCRIPTION_LIMIT, "d")), PyNone, PyNone)

ToolLong == ClaudeTool("n", PyText(Junk(DESCRIPTION_LIMIT + 1, "d")), PyNone, PyNone)

ToolNoDesc == ClaudeTool("m", PyNone, PyStr("custom"), PyNone)

ToolWeb == ClaudeTool("m", PyNone, PyStr("web_search_20250305"), PyInt(8))

ToolWebLong ==
    ClaudeTool("m", PyText(Junk(DESCRIPTION_LIMIT + 1, "w")),
               PyStr("web_search_20250305"), PyNone)

PlainToolLists == {<<>>, <<ToolShort>>, <<ToolWeb>>, <<ToolShort, ToolNoDesc>>}

ToolLists ==
    PlainToolLists
    \cup {<<ToolAtLimit>>, <<ToolLong>>, <<ToolLong, ToolWeb>>, <<ToolWebLong, ToolLong>>}

SystemValues ==
    {PyNone, PyText(<<>>), PyText(<<"s">>), PyList(<<>>),
     PyList(<<[type |-> "text", text |-> <<"s">>],
              [type |-> "image"],
              [type |-> "text", text |-> <<"y">>]>>)}

ToolRequests ==
    { [messages |-> m, model |-> DEFAULT_MODEL, thinking |-> PyNone,
       tools |-> tools, system |-> PyNone] :
        m \in ToolConversations, tools \in PlainToolLists }
    \cup
    { [messages |-> m, model |-> DEFAULT_MODEL, thinking |-> th,
       tools |-> tools, system |-> system] :
        m \in {<<UserText>>, <<UserText, AsstOne, UserResults>>},
        th \in {PyNone, PyBool(TRUE)}, tools \in ToolLists,
        system \in SystemValues }

ToolsInit ==
    /\ request \in ToolRequests
    /\ outcome = Pending

(* _reorder_tool_results_by_tool_uses on its own: the tool results the      *)
(* transcoder builds from up to MaxResultBlocks tool_result blocks, and a   *)
(* tool_use order list of up to MaxOrderLen ids, some of them repeated or   *)
(* absent from the results.                                                  *)

MaxResultBlocks == 3

MaxOrderLen == 3

ResultIds == {"A", "B", "C", None}

OrderIds == {"A", "B", "C", "D"}

\* a tool_result block whose content tells the results apart
ResultBlock(tool_use_id) ==
    [ToolResult(tool_use_id) EXCEPT
        !.content = IF tool_use_id = None THEN <<"r">> ELSE <<"r", tool_use_id>>]

RECURSIVE ResultBlocks(_)
ResultBlocks(ids) ==
    IF ids = <<>> THEN <<>> ELSE <<ResultBlock(Head(ids))>> \o ResultBlocks(Tail(ids))

ReorderInputs ==
    { [tool_results |-> CollectToolResults(<<>>, ResultBlocks(ids)),
       tool_use_order |-> order] :
        ids \in UNION { [1..n -> ResultIds] : n \in 0..MaxResultBlocks },
        order \in UNION { [1..n -> OrderIds] : n \in 0..MaxOrderLen } }

ReorderInit ==
    /\ request \in ReorderInputs
    /\ outcome = Pending

\* lines 402 and 749: the call
Reorder ==
    /\ outcome = Pending
    /\ outcome' = [kind |-> "reordered", passes |-> 1,
                   first |-> _reorder_tool_results_by_tool_uses(
                                 request.tool_results, request.tool_use_order),
                   results |-> _reorder_tool_results_by_tool_uses(
                                   request.tool_results, request.tool_use_order)]
    /\ UNCHANGED request
    /\ UNCHANGED notConverterVars

\* the call again, on what it returned
ReorderAgain ==
    /\ outcome.kind = "reordered"
    /\ outcome.passes < 2
    /\ outcome' = [outcome EXCEPT !.passes = @ + 1,
                       !.results = _reorder_tool_results_by_tool_uses(
                                       @, request.tool_use_order)]
    /\ UNCHANGED request
    /\ UNCHANGED notConverterVars

ReorderNext ==
    \/ Reorder
    \/ ReorderAgain

\* the transcoder is not in use
ConverterIdle ==
    /\ request = [messages |-> <<>>, model |-> DEFAULT_MODEL, thinking |-> PyNone,
                  tools |-> <<>>, system |-> PyNone]
    /\ outcome = Pending

\* one call of convert_claude_to_amazonq_request
Convert ==
    /\ outcome = Pending
    /\ \E names_order \in SetOrders(MissingToolNames(request.messages,
                                                      request.tools)) :
           outcome' = convert_claude_to_amazonq_request(request, names_order)
    /\ UNCHANGED request
    /\ UNCHANGED notConverterVars

ConverterNext == Convert

------------------------------------------------------------------------------
(* The upstream dispatcher (replicate.py, send_chat_request).               *)
(*                                                                           *)
(* dispatch.pc is where the coroutine stands; client is the HTTP client the  *)
(* dispatcher created itself ("none" when the caller passed one), given the  *)
(* client the caller passed ("none" when the caller passed none), resp the   *)
(* upstream response, gen the generator handed to the caller (stream) or     *)
(* drained by the coroutine itself (non-stream), left the number of items    *)
(* the upstream still holds.  A library call either returns or raises; a     *)
(* pending await can also be cancelled (CancelledError is no Exception).     *)

MaxChunks == 2

DispatchInit(client_given, stream, raw_payload, left) ==
    [pc |-> "create", client_given |-> client_given, stream |-> stream,
     raw_payload |-> raw_payload, left |-> left,
     local_client |-> FALSE, client |-> "none", resp |-> "none",
     given |-> IF client_given THEN "open" ELSE "none",
     status |-> 0, gen |-> "none", has_content |-> FALSE,
     response_consumed |-> FALSE, propagate |-> "none"]

CloseResp(d) == [d EXCEPT !.resp = IF @ = "open" THEN "closed" ELSE @]

\* await client.aclose() without the test of local_client: client is then the
\* one the caller passed
CloseClient_Unguarded(d) ==
    [d EXCEPT !.client = IF @ = "open" THEN "closed" ELSE @,
              !.given = IF ~d.local_client /\ @ = "open" THEN "closed" ELSE @]

\* if local_client (and client): await client.aclose()
CloseClient(d) ==
    [d EXCEPT !.client = IF d.local_client /\ @ = "open" THEN "closed" ELSE @]

\* lines 412-417: the finally clause of _iter_events
GenFinally(d) ==
    CloseClient(CloseResp([d EXCEPT !.response_consumed = TRUE]))

\* _iter_events yields one event; track() notes non-empty text
GenItem(d, nonempty) ==
    [d EXCEPT !.left = @ - 1, !.gen = "suspended",
              !.has_content = @ \/ (~d.raw_payload /\ nonempty)]

\* the upstream stream is exhausted
GenEnd(d) == [GenFinally(d) EXCEPT !.gen = "finished"]

\* reading the upstream raises: re-raised unless content was already sent
GenError(d) ==
    [GenFinally(d) EXCEPT !.gen = "finished",
        !.propagate = IF d.has_content THEN "none" ELSE "Exception"]

\* the pending read is cancelled
GenCancelled(d) ==
    [GenFinally(d) EXCEPT !.gen = "finished", !.propagate = "CancelledError"]

\* GeneratorExit at the yield of _iter_events
GenExit(d) == [GenFinally(d) EXCEPT !.gen = "closed"]

\* the outcomes of resuming the generator
GenOutcomes(d) ==
    {GenError(d), GenCancelled(d)}
    \cup (IF d.left > 0 THEN {GenItem(d, TRUE), GenItem(d, FALSE)}
          ELSE {GenEnd(d)})

\* lines 324-336: a client of its own when the caller passed none
CreateClient ==
    /\ dispatch.pc = "create"
    /\ dispatch' = [dispatch EXCEPT !.pc = "build",
           !.local_client = ~dispatch.client_given,
           !.client = IF dispatch.client_given THEN "none" ELSE "open"]
    /\ UNCHANGED notDispatcherVars

\* line 339, before the try statement: build_request returns or raises
BuildRequest ==
    /\ dispatch.pc = "build"
    /\ \E raises \in BOOLEAN :
           dispatch' = [dispatch EXCEPT
               !.pc = IF raises THEN "raised" ELSE "send",
               !.propagate = IF raises THEN "Exception" ELSE @]
    /\ UNCHANGED notDispatcherVars

\* line 343: client.send returns a response, raises, or is cancelled
SendRequest ==
    /\ dispatch.pc = "send"
    /\ \/ \E status \in {200, 500} :
              dispatch' = [dispatch EXCEPT !.pc = "status", !.resp = "open",
                                           !.status = status]
       \/ dispatch' = [dispatch EXCEPT !.pc = "except",
                                       !.propagate = "Exception"]
       \/ dispatch' = [dispatch EXCEPT !.pc = "raised",
                                       !.propagate = "CancelledError"]
    /\ UNCHANGED notDispatcherVars

\* lines 345-368: an upstream error status closes both and raises HTTPError
ErrorStatus ==
    /\ dispatch.pc = "status"
    /\ dispatch.status >= 400
    /\ dispatch' = [CloseClient(CloseResp(dispatch)) EXCEPT
                       !.pc = "except", !.propagate = "Exception"]
    /\ UNCHANGED notDispatcherVars

\* lines 480-491: stream mode hands the generator to the caller
ReturnStream ==
    /\ dispatch.pc = "status"
    /\ dispatch.status < 400
    /\ dispatch.stream
    /\ dispatch' = [dispatch EXCEPT !.pc = "returned", !.gen = "created"]
    /\ UNCHANGED notDispatcherVars

\* lines 492-496: non-stream mode drains the generator itself
Drain ==
    /\ \/ dispatch.pc = "status" /\ dispatch.status < 400 /\ ~dispatch.stream
       \/ dispatch.pc = "drain"
    /\ \E d \in GenOutcomes(dispatch) :
           dispatch' = [d EXCEPT
               !.pc = IF d.gen = "suspended" THEN "drain" ELSE "drain_finally"]
    /\ UNCHANGED notDispatcherVars

\* lines 497-503: the finally clause of the drain, then return or re-raise
DrainFinally ==
    /\ dispatch.pc = "drain_finally"
    /\ dispatch' =
         [(IF ~dispatch.response_consumed /\ dispatch.resp # "none"
           THEN CloseClient(CloseResp(dispatch)) ELSE dispatch)
          EXCEPT !.pc = CASE dispatch.propagate = "none" -> "returned"
                          [] dispatch.propagate = "Exception" -> "except"
                          [] OTHER -> "raised"]
    /\ UNCHANGED notDispatcherVars

\* lines 505-511: except Exception closes both and re-raises
ExceptHandler ==
    /\ dispatch.pc = "except"
    /\ dispatch' = [CloseClient(CloseResp(dispatch)) EXCEPT !.pc = "raised"]
    /\ UNCHANGED notDispatcherVars

\* the caller asks the generator for the next item
ConsumerNext ==
    /\ dispatch.pc = "returned"
    /\ dispatch.gen \in {"created", "suspended"}
    /\ \E d \in GenOutcomes(dispatch) : dispatch' = d
    /\ UNCHANGED notDispatcherVars

\* the caller closes the generator (client disconnect).  A generator that
\* never ran has no finally clause to run; the text generator is a chain
\* track(_iter_text(_iter_events())) whose inner generators are closed by
\* the event loop once the outer one is gone.
ConsumerClose ==
    /\ dispatch.pc = "returned"
    /\ dispatch.gen \in {"created", "suspended"}
    /\ dispatch' =
         IF dispatch.gen = "created"
         THEN [dispatch EXCEPT !.gen = "unstarted_garbage"]
         ELSE IF dispatch.raw_payload THEN GenExit(dispatch)
         ELSE [dispatch EXCEPT !.gen = "suspended_garbage"]
    /\ UNCHANGED notDispatcherVars

\* the caller drops the generator without closing it
ConsumerAbandon ==
    /\ dispatch.pc = "returned"
    /\ dispatch.gen \in {"created", "suspended"}
    /\ dispatch' = [dispatch EXCEPT
           !.gen = IF @ = "created" THEN "unstarted_garbage"
                   ELSE "suspended_garbage"]
    /\ UNCHANGED notDispatcherVars

\* the event loop closes a suspended generator nobody holds any more
AsyncgenClose ==
    /\ dispatch.gen = "suspended_garbage"
    /\ dispatch' = GenExit(dispatch)
    /\ UNCHANGED notDispatcherVars

\* lines 425-478, _schedule_cleanup, run when the generator is collected:
\* closes both, but only when the response is not closed yet
Finalizer ==
    /\ dispatch.gen \in {"unstarted_garbage", "suspended_garbage"}
    /\ dispatch' =
         [(IF dispatch.resp = "open" THEN CloseClient(CloseResp(dispatch))
           ELSE dispatch)
          EXCEPT !.gen = IF @ = "unstarted_garbage" THEN "collected" ELSE @]
    /\ dispatch' # dispatch
    /\ UNCHANGED notDispatcherVars

DispatcherNext ==
    \/ CreateClient
    \/ BuildRequest
    \/ SendRequest
    \/ ErrorStatus
    \/ ReturnStream
    \/ Drain
    \/ DrainFinally
    \/ ExceptHandler
    \/ ConsumerNext
    \/ ConsumerClose
    \/ ConsumerAbandon
    \/ AsyncgenClose
    \/ Finalizer

DispatcherEnvInit ==
    \E client_given \in BOOLEAN, stream \in BOOLEAN, raw_payload \in BOOLEAN,
       left \in 0..MaxChunks :
        dispatch = DispatchInit(client_given, stream, raw_payload, left)

\* the dispatcher is not in use
DispatcherIdle == dispatch = DispatchInit(TRUE, FALSE, FALSE, 0)

------------------------------------------------------------------------------
(* src/claude_stream.py, QuoteState driven directly: one object with any    *)
(* starting flags, one text and one position.  check_at_position is called  *)
(* on the object before update starts; update is followed pass by pass of   *)
(* its while loop, i being its index; update is also applied in one call to *)
(* the prefix text[:pos] on a second object with the same starting flags.   *)

MaxTextLen == 3

QuoteChars == {BACKTICK, "\\", "\"", "a"}

RECURSIVE Texts(_)
Texts(n) ==
    IF n = 0 THEN {<<>>}
    ELSE Texts(n - 1) \cup { Append(t, c) : t \in { u \in Texts(n - 1) : Len(u) = n - 1 },
                                            c \in QuoteChars }

QuoteStates ==
    [in_single : BOOLEAN, in_double : BOOLEAN,
     in_backtick : BOOLEAN, in_triple_backtick : BOOLEAN]

QuoteObject(start, text, pos) ==
    [start |-> start, text |-> text, pos |-> pos,
     q |-> start, i |-> 0, checked |-> "none", prefixed |-> FALSE, prefix |-> start]

QuoteEnvInit ==
    \E start \in QuoteStates, text \in Texts(MaxTextLen) :
        \E pos \in 0..Len(text) : quote = QuoteObject(start, text, pos)

QuoteIdle == quote = QuoteObject(QuoteInit, <<>>, 0)

\* the bool check_at_position returns
Bool(b) == IF b THEN "True" ELSE "False"

\* lines 79-104: check_at_position(text, pos), which works on copies of the flags
CheckAtPosition ==
    /\ quote.checked = "none"
    /\ quote.i = 0
    /\ quote' = [quote EXCEPT !.checked = Bool(check_at_position(quote.q, quote.text, quote.pos))]
    /\ UNCHANGED notQuoteVars

\* lines 60-77: one pass of the while loop of update(text)
UpdatePass ==
    /\ quote.i < Len(quote.text)
    /\ LET s == UpdateStep([q |-> quote.q, i |-> quote.i], quote.text) IN
       quote' = [quote EXCEPT !.q = s.q, !.i = s.i]
    /\ UNCHANGED notQuoteVars

\* lines 57-77: update(text[:pos]) on an object with the same starting flags
UpdatePrefix ==
    /\ ~quote.prefixed
    /\ quote' = [quote EXCEPT !.prefixed = TRUE,
                              !.prefix = QuoteUpdate(quote.start, Take(quote.text, quote.pos))]
    /\ UNCHANGED notQuoteVars

QuoteNext ==
    \/ CheckAtPosition
    \/ UpdatePass
    \/ UpdatePrefix

------------------------------------------------------------------------------
(* src/auth_flow.py, poll_token_device_code.  Time is counted in whole       *)
(* seconds from the call (time.time() - now); a request or a sleep may take  *)
(* longer than asked, by whole seconds.  The token endpoint answers as it    *)
(* likes: the status and the error field of each response are its choice.    *)

\* line 111: the default of max_timeout_sec
MAX_TIMEOUT_SEC == 300

\* seconds a request may take, and a sleep may overrun
MaxLatency == 2

Max(a, b) == IF a > b THEN a ELSE b

\* poll_interval without the floor of one second
PollInterval_Raw(interval) == interval

\* line 134: max(1, int(interval or 1)); interval is 0 where the caller has None
PollInterval(interval) == Max(1, IF interval = 0 THEN 1 ELSE interval)

\* lines 128-131, with max_timeout_sec at its default
Deadline(expires_in) == Min(Max(1, expires_in), MAX_TIMEOUT_SEC)

\* what the token endpoint may answer: a status and, for 400, the error field
Answers ==
    { [status |-> 200, error |-> ""],
      [status |-> 204, error |-> ""],
      [status |-> 400, error |-> "authorization_pending"],
      [status |-> 400, error |-> "expired_token"],
      [status |-> 401, error |-> ""],
      [status |-> 500, error |-> ""] }

NoAnswer == [status |-> 0, error |-> ""]

\* httpx.Response.raise_for_status raises on 4xx and 5xx, not on 2xx
RaisesForStatus(status) == status >= 400

AuthorizationPending(answer) ==
    answer.status = 400 /\ answer.error = "authorization_pending"

PollStart(interval, expires_in) ==
    [pc |-> "test", time |-> 0,
     expires_in |-> expires_in,
     deadline |-> Deadline(expires_in),
     poll_interval |-> PollInterval(interval),
     sent_at |-> -1, before_at |-> -1, answer |-> NoAnswer,
     only_pending |-> TRUE]

Intervals == {0, 1, 5, 120}

Expiries == {1, 7, 299, 301}

PollEnvInit ==
    \E interval \in Intervals, expires_in \in Expiries : poll = PollStart(interval, expires_in)

PollIdle == poll = PollStart(1, 1)

\* lines 144-145: the loop condition, then post_json is called; after the loop
\* line 162 raises TimeoutError
LoopTest ==
    /\ poll.pc = "test"
    /\ poll' = IF poll.time < poll.deadline
               THEN [poll EXCEPT !.pc = "request", !.before_at = poll.sent_at,
                                 !.sent_at = poll.time]
               ELSE [poll EXCEPT !.pc = "TimeoutError"]
    /\ UNCHANGED notPollVars

\* lines 146-160: the response arrives and is handled
Response ==
    /\ poll.pc = "request"
    /\ \E answer \in Answers, took \in 0..MaxLatency :
          poll' = [poll EXCEPT
                     !.time = @ + took,
                     !.answer = answer,
                     !.only_pending = @ /\ AuthorizationPending(answer),
                     !.pc = IF answer.status = 200 THEN "returned"
                            ELSE IF AuthorizationPending(answer) THEN "sleep"
                            ELSE IF RaisesForStatus(answer.status) THEN "HTTPStatusError"
                            ELSE "test"]
    /\ UNCHANGED notPollVars

\* line 145: post_json raises (no connection, timeout of the request)
RequestFails ==
    /\ poll.pc = "request"
    /\ \E took \in 0..MaxLatency :
          poll' = [poll EXCEPT !.time = @ + took, !.only_pending = FALSE,
                               !.pc = "HTTPError"]
    /\ UNCHANGED notPollVars

\* lines 155-156: asyncio.sleep(poll_interval), then continue
Sleep ==
    /\ poll.pc = "sleep"
    /\ \E over \in 0..MaxLatency :
          poll' = [poll EXCEPT !.time = @ + poll.poll_interval + over, !.pc = "test"]
    /\ UNCHANGED notPollVars

PollNext ==
    \/ LoopTest
    \/ Response
    \/ RequestFails
    \/ Sleep

------------------------------------------------------------------------------
(* Specifications: one per component, the other components idle.            *)

Init == EmitterInit /\ DecoderIdle /\ ConverterIdle /\ DispatcherIdle /\ QuoteIdle /\ PollIdle

Next == EmitterNext

Spec == Init /\ [][Next]_vars

EmitterIdle == EmitterInit

SpecDecoderInit ==
    DecoderEnvInit /\ EmitterIdle /\ ConverterIdle /\ DispatcherIdle /\ QuoteIdle /\ PollIdle

SpecDecoder == SpecDecoderInit /\ [][DecoderNext]_vars

SpecConverterInit ==
    ConverterInit /\ EmitterIdle /\ DecoderIdle /\ DispatcherIdle /\ QuoteIdle /\ PollIdle

SpecConverter == SpecConverterInit /\ [][ConverterNext]_vars

SpecDispatcherInit ==
    DispatcherEnvInit /\ EmitterIdle /\ DecoderIdle /\ ConverterIdle /\ QuoteIdle /\ PollIdle

\* the coroutine, the caller and the collector each take their next step
SpecDispatcher ==
    SpecDispatcherInit /\ [][DispatcherNext]_vars /\ WF_vars(DispatcherNext)

SpecThinkingInit ==
    ThinkingInit /\ EmitterIdle /\ DecoderIdle /\ DispatcherIdle /\ QuoteIdle /\ PollIdle

SpecThinking == SpecThinkingInit /\ [][ConverterNext]_vars

SpecOptionsInit ==
    OptionsInit /\ EmitterIdle /\ DecoderIdle /\ DispatcherIdle /\ QuoteIdle /\ PollIdle

SpecOptions == SpecOptionsInit /\ [][ConverterNext]_vars

SpecToolsInit ==
    ToolsInit /\ EmitterIdle /\ DecoderIdle /\ DispatcherIdle /\ QuoteIdle /\ PollIdle

SpecTools == SpecToolsInit /\ [][ConverterNext]_vars

SpecHeadersInit ==
    HeadersEnvInit /\ EmitterIdle /\ ConverterIdle /\ DispatcherIdle /\ QuoteIdle
        /\ PollIdle

SpecHeaders == SpecHeadersInit /\ [][DecoderNext]_vars

SpecErrorsInit ==
    ErrorsEnvInit /\ EmitterIdle /\ ConverterIdle /\ DispatcherIdle /\ QuoteIdle
        /\ PollIdle

SpecErrors == SpecErrorsInit /\ [][DecoderNext]_vars

SpecCrcInit ==
    CrcEnvInit /\ EmitterIdle /\ ConverterIdle /\ DispatcherIdle /\ QuoteIdle /\ PollIdle

SpecCrc == SpecCrcInit /\ [][CrcNext]_vars

SpecFloodInit ==
    FloodEnvInit /\ EmitterIdle /\ ConverterIdle /\ DispatcherIdle /\ QuoteIdle
        /\ PollIdle

SpecFlood == SpecFloodInit /\ [][FloodNext]_vars

SpecTagCut == Init /\ [][TagCutNext]_vars

SpecReorderInit ==
    ReorderInit /\ EmitterIdle /\ DecoderIdle /\ DispatcherIdle /\ QuoteIdle /\ PollIdle

SpecReorder == SpecReorderInit /\ [][ReorderNext]_vars

SpecForwardInit ==
    ForwardEnvInit /\ EmitterIdle /\ ConverterIdle /\ DispatcherIdle /\ QuoteIdle
        /\ PollIdle

SpecForward == SpecForwardInit /\ [][ForwardNext]_vars

SpecOverlongInit ==
    OverlongEnvInit /\ EmitterIdle /\ ConverterIdle /\ DispatcherIdle /\ QuoteIdle
        /\ PollIdle

SpecOverlong == SpecOverlongInit /\ [][DecoderNext]_vars

SpecLoopInit ==
    LoopEnvInit /\ EmitterIdle /\ ConverterIdle /\ DispatcherIdle /\ QuoteIdle
        /\ PollIdle

\* The body of feed is sequential code: once in the loop, the next pass runs.
\* This is WF_vars(FeedPass) with ENABLED <<FeedPass>>_vars written out: a pass
\* is possible exactly inside the loop, and every pass changes the state.
FeedPassFair == []<>(wire.via # "loop") \/ []<><<FeedPass>>_vars

SpecLoop == SpecLoopInit /\ [][LoopNext]_vars /\ FeedPassFair

SpecQuoteInit ==
    QuoteEnvInit /\ EmitterIdle /\ DecoderIdle /\ ConverterIdle /\ DispatcherIdle
        /\ PollIdle

SpecQuote == SpecQuoteInit /\ [][QuoteNext]_vars

SpecPollInit ==
    PollEnvInit /\ EmitterIdle /\ DecoderIdle /\ ConverterIdle /\ DispatcherIdle
        /\ QuoteIdle

\* the event loop resumes the coroutine: a request is answered or times out, a
\* sleep ends
SpecPoll == SpecPollInit /\ [][PollNext]_vars /\ WF_vars(PollNext)

------------------------------------------------------------------------------
(* Reading the SSE transcript.                                              *)

CountType(type) == Cardinality({ i \in DOMAIN sse : sse[i].type = type })

StartsOf(index) ==
    { i \in DOMAIN sse : sse[i].type = "content_block_start" /\ sse[i].index = index }

StopsOf(index) ==
    { i \in DOMAIN sse : sse[i].type = "content_block_stop" /\ sse[i].index = index }

BlockIndexes ==
    { sse[i].index : i \in { j \in DOMAIN sse :
                               sse[j].type \in {"content_block_start", "content_block_stop"} } }

\* the payloads of the deltas of one kind, concatenated in emission order
RECURSIVE DeltaConcat(_, _, _)
DeltaConcat(kind, i, acc) ==
    IF i > Len(sse) THEN acc
    ELSE DeltaConcat(kind, i + 1,
                     IF sse[i].type = "content_block_delta" /\ sse[i].kind = kind
                     THEN acc \o sse[i].data ELSE acc)

TextOut == DeltaConcat("text_delta", 1, <<>>)

ThinkingOut == DeltaConcat("thinking_delta", 1, <<>>)

\* the response is over: assistantResponseEnd was handled or finish() was called
ResponseOver == handler.response_ended \/ calls.finish >= 1

------------------------------------------------------------------------------
(* C1: after any upstream events and one finish() call the SSE sequence has *)
(* message_start at most once, message_stop exactly once, and for every     *)
(* content_block_start exactly one content_block_stop of the same index: no *)
(* index is stopped twice and none is left unstopped.                       *)

C1_WellFormedSSE ==
    calls.finish = 1 =>
        /\ CountType("message_start") <= 1
        /\ CountType("message_stop") = 1
        /\ \A index \in BlockIndexes :
              /\ Cardinality(StartsOf(index)) = 1
              /\ Cardinality(StopsOf(index)) = 1

------------------------------------------------------------------------------
(* The text of a response split by its real thinking spans, read off the    *)
(* whole text: a tag is real when it is not inside quotes; the quote state  *)
(* starts afresh where a thinking span begins.                              *)

StartsWith(text, i, tag) ==
    i + Len(tag) <= Len(text) /\ SubSeq(text, i + 1, i + Len(tag)) = tag

\* one scanning step at index s.i: a real tag switches the mode, anything else
\* is copied to the side it belongs to, the quote state following it
SplitStep(s, text) ==
    LET tag == IF s.inside THEN THINKING_END_TAG ELSE THINKING_START_TAG IN
    IF StartsWith(text, s.i, tag) /\ ~is_inside_quotes(s.q)
    THEN [s EXCEPT !.inside = ~@, !.q = QuoteInit, !.i = @ + Len(tag)]
    ELSE LET n == UpdateStep([q |-> s.q, i |-> s.i], text)
             piece == SubSeq(text, s.i + 1, n.i)
         IN [inside |-> s.inside, q |-> n.q, i |-> n.i,
             text |-> IF s.inside THEN s.text ELSE s.text \o piece,
             thinking |-> IF s.inside THEN s.thinking \o piece ELSE s.thinking]

RECURSIVE SplitLoop(_, _)
SplitLoop(s, text) ==
    IF s.i >= Len(text) THEN s ELSE SplitLoop(SplitStep(s, text), text)

SplitThinking(text) ==
    SplitLoop([inside |-> FALSE, q |-> QuoteInit, i |-> 0,
               text |-> <<>>, thinking |-> <<>>], text)

(* C2: for any assistant text and any chunking of it, once the response is  *)
(* over the text deltas concatenate to the text without its real thinking   *)
(* spans and the thinking deltas to the interiors of those spans.           *)

C2_DeltasSplitText ==
    (ResponseOver /\ calls.tools = 0) =>
        /\ TextOut = SplitThinking(fedText).text
        /\ ThinkingOut = SplitThinking(fedText).thinking

------------------------------------------------------------------------------
(* C8: once assistantResponseEnd has been handled, every later handle_event *)
(* call and every finish() call emits nothing and leaves the handler's      *)
(* state unchanged.                                                         *)

C8_EndedIsFrozen ==
    [][handler.response_ended => (handler' = handler /\ sse' = sse)]_vars

\* reached: the response has ended and both a handle_event call and a finish()
\* call were made afterwards
C8_Witness ==
    /\ handler.response_ended
    /\ calls.finish >= 1
    /\ calls.late > calls.finish

------------------------------------------------------------------------------
(* C9: with no assistantResponseEnd seen, calling finish() two or more      *)
(* times emits the message_delta/message_stop pair exactly once in total    *)
(* and no second closing content_block_stop.                                *)

C9_FinishIdempotent ==
    (calls.ends = 0 /\ calls.finish >= 2) =>
        /\ CountType("message_delta") = 1
        /\ CountType("message_stop") = 1
        /\ \A i, j \in DOMAIN sse :
              (sse[i].type = "message_stop" /\ i < j) => sse[j].type # "content_block_stop"

------------------------------------------------------------------------------
(* C10: an assistant text without a thinking marker, delivered as any       *)
(* chunks with no tool events, gives exactly one content block, of type     *)
(* text, whose deltas concatenate to the whole text, and no thinking block. *)

NoThinkingMarker(text) ==
    /\ StrFind(text, THINKING_START_TAG, 0) = -1
    /\ StrFind(text, THINKING_END_TAG, 0) = -1

C10_PlainTextOneBlock ==
    (ResponseOver /\ calls.tools = 0 /\ fedText # <<>> /\ NoThinkingMarker(fedText)) =>
        /\ CountType("content_block_start") = 1
        /\ \A i \in DOMAIN sse : sse[i].type = "content_block_start" => sse[i].kind = "text"
        /\ TextOut = fedText
        /\ ThinkingOut = <<>>

------------------------------------------------------------------------------
(* C3: for a byte stream that is a concatenation of valid frames, the       *)
(* frames returned over the feed calls of any chunking are the frames one   *)
(* feed call with the whole stream returns: same headers, payloads and      *)
(* total_length, in the same order.                                         *)

AllValid(items) == \A k \in DOMAIN items : items[k] \in ValidItems

C3_ChunkingInsensitive ==
    (wire.rest = <<>> /\ AllValid(wire.items)) =>
        returned = feed(DecoderInit(decoder.max_errors, decoder.validate_crc), wire.fed).returned

\* reached: two different valid frames, delivered in two or more chunks, both returned
C3_Witness ==
    /\ wire.rest = <<>>
    /\ AllValid(wire.items)
    /\ wire.feeds >= 2
    /\ Len(returned) = 2
    /\ returned[1].msg # returned[2].msg

------------------------------------------------------------------------------
(* C4: with validate_crc on, every frame feed returns, on any input and     *)
(* after any errors and recoveries, has a total_length from 16 to 16 MiB, a *)
(* prelude CRC field equal to the CRC32C of its first 8 bytes and a message *)
(* CRC field equal to the CRC32C of all its bytes before the last 4.        *)

FrameVerified(r) ==
    /\ MIN_TOTAL_LENGTH <= r.msg.total_length
    /\ r.msg.total_length <= MAX_TOTAL_LENGTH
    /\ Len(r.raw) = r.msg.total_length
    /\ SubSeq(r.raw, 9, 12) = crc32c(SubSeq(r.raw, 1, 8))
    /\ SubSeq(r.raw, Len(r.raw) - 3, Len(r.raw)) = crc32c(SubSeq(r.raw, 1, Len(r.raw) - 4))

C4_ReturnedFramesVerified ==
    decoder.validate_crc => \A k \in DOMAIN returned : FrameVerified(returned[k])

\* reached: a frame returned after a CRC error and a recovery
C4_Witness ==
    /\ decoder.validate_crc
    /\ decoder.crc_errors >= 1
    /\ decoder.error_count = 0
    /\ returned # <<>>

------------------------------------------------------------------------------
(* Reading a request and the payload built from it.                         *)

Converted == outcome # Pending

HistoryOut == outcome.conversationState.history

Alternates(history) ==
    \A i \in 1..(Len(history) - 1) : DOMAIN history[i] # DOMAIN history[i + 1]

RECURSIVE Distinct(_, _)
Distinct(ids, acc) ==
    IF ids = <<>> THEN acc
    ELSE IF \E k \in 1..Len(acc) : acc[k] = Head(ids)
         THEN Distinct(Tail(ids), acc)
    ELSE Distinct(Tail(ids), Append(acc, Head(ids)))

BlocksOf(msg) == IF msg.content.str THEN <<>> ELSE msg.content.blocks

BlocksOfType(msg, type) ==
    LET OfType(b) == b.type = type IN SelectSeq(BlocksOf(msg), OfType)

\* U: the ids of an assistant message's tool_use blocks, in emission order
UseIdsOf(msg) ==
    [k \in 1..Len(BlocksOfType(msg, "tool_use")) |->
        BlocksOfType(msg, "tool_use")[k].id]

\* the ids of a user message's tool results, in their original order
ResultIdsOf(msg) ==
    Distinct([k \in 1..Len(BlocksOfType(msg, "tool_result")) |->
                 BlocksOfType(msg, "tool_result")[k].tool_use_id], <<>>)

HasResults(msg) == msg.role = "user" /\ BlocksOfType(msg, "tool_result") # <<>>

IdsOut(tool_results) ==
    [k \in 1..Len(tool_results) |-> tool_results[k].toolUseId]

\* the ids in U first, in the order of U, then the others as they came
ExpectedOrder(U, R) ==
    LET InR(id) == \E k \in 1..Len(R) : R[k] = id
        NotInU(id) == \A k \in 1..Len(U) : U[k] # id
    IN SelectSeq(Distinct(U, <<>>), InR) \o SelectSeq(R, NotInU)

\* the history entries that carry tool results: the transcoder never merges
\* a user message that has tool results, so the k-th such entry is the k-th
\* such message
ResultEntries(history) ==
    LET Carries(e) ==
            /\ "userInputMessage" \in DOMAIN e
            /\ e.userInputMessage.toolResults # <<>>
    IN SelectSeq(history, Carries)

ResultRank(messages, j) == Cardinality({ i \in 1..j : HasResults(messages[i]) })

\* user messages with tool results right after an assistant message
AnsweringTurns(messages) ==
    { j \in 2..Len(messages) :
        HasResults(messages[j]) /\ messages[j - 1].role = "assistant" }

ResultsOut(messages, j) ==
    IF j = Len(messages)
    THEN outcome.conversationState.currentMessage.userInputMessage.toolResults
    ELSE ResultEntries(HistoryOut)[ResultRank(messages, j)]
             .userInputMessage.toolResults

\* the tool calls of the last LOOP_WINDOW messages in order, an input being
\* the set of its items and a user message leaving the mark <<>>
CallsOfBlocks(msg) ==
    [k \in 1..Len(BlocksOfType(msg, "tool_use")) |->
        <<BlocksOfType(msg, "tool_use")[k].name,
          Range(BlocksOfType(msg, "tool_use")[k].input)>>]

RECURSIVE CallTrace(_)
CallTrace(messages) ==
    IF messages = <<>> THEN <<>>
    ELSE (IF Head(messages).role = "user" THEN <<<<>>>>
          ELSE CallsOfBlocks(Head(messages)))
         \o CallTrace(Tail(messages))

HasRun(trace, n) ==
    \E i \in 1..(Len(trace) - n + 1) :
        /\ trace[i] # <<>>
        /\ \A k \in i..(i + n - 1) : trace[k] = trace[i]

RecentCalls == CallTrace(LastN(request.messages, LOOP_WINDOW))

------------------------------------------------------------------------------
(* C5, as stated: every request either fails with the alternation error and *)
(* returns no payload, or returns a payload whose history has no two        *)
(* adjacent entries of the same role.                                       *)

C5_AlternationErrorOrPayload ==
    Converted =>
        \/ outcome.kind = "MalformedHistory"
        \/ outcome.kind = "payload" /\ Alternates(HistoryOut)

(* C5, amended: every request either fails, with the loop-detected error    *)
(* or with the alternation error, and returns no payload, or returns a      *)
(* payload whose history has no two adjacent entries of the same role.      *)

C5_ErrorOrAlternatingHistory ==
    Converted =>
        \/ outcome.kind \in {"LoopDetected", "MalformedHistory"}
           /\ DOMAIN outcome = {"kind"}
        \/ outcome.kind = "payload" /\ Alternates(HistoryOut)

\* reached: a payload built from a history with two user messages in a row,
\* which the transcoder merged
C5_Witness ==
    /\ Converted
    /\ outcome.kind = "payload"
    /\ \E i \in 1..(Len(request.messages) - 2) :
           /\ request.messages[i].role = "user"
           /\ request.messages[i + 1].role = "user"
    /\ Len(HistoryOut) >= 2

------------------------------------------------------------------------------
(* C6: in a built payload, the tool results of a user message that follows  *)
(* an assistant message with tool_use ids U list the results whose id is in *)
(* U first, in the order of U, then the remaining results in their original *)
(* order, in the history and in the current message alike.                  *)

C6_ResultsFollowToolUses ==
    (Converted /\ outcome.kind = "payload") =>
        \A j \in AnsweringTurns(request.messages) :
            IdsOut(ResultsOut(request.messages, j))
                = ExpectedOrder(UseIdsOf(request.messages[j - 1]),
                                ResultIdsOf(request.messages[j]))

------------------------------------------------------------------------------
(* C7: a request fails with the loop-detected error exactly when its last   *)
(* 10 messages contain 3 consecutive assistant tool calls with the same     *)
(* name and the same input, whatever the order of the input's keys, with no *)
(* user message between them.                                               *)

C7_LoopGuard ==
    Converted =>
        (HasRun(RecentCalls, LOOP_THRESHOLD) <=> outcome.kind = "LoopDetected")

------------------------------------------------------------------------------
(* C11: two valid frames with one garbage byte between them, fed under any  *)
(* chunking and whatever the garbage byte, are both returned, in order, and *)
(* the decoder ends with messages_parsed = 2 and is not stopped.            *)

C11_RecoversAfterGarbageByte ==
    (wire.items \in Separated /\ wire.rest = <<>>) =>
        /\ Len(returned) = 2
        /\ returned[1].raw = ItemBytes(wire.items[1])
        /\ returned[2].raw = ItemBytes(wire.items[3])
        /\ decoder.messages_parsed = 2
        /\ decoder.state # "STOPPED"

------------------------------------------------------------------------------
(* C12: on every exit path of send_chat_request and of the generators it    *)
(* returns, the upstream response is eventually closed and the HTTP client  *)
(* the dispatcher created is eventually closed.                             *)

Released == dispatch.resp # "open" /\ dispatch.client # "open"

C12_EventuallyReleased == <>[]Released

------------------------------------------------------------------------------
(* The text the handler has emitted as text deltas, read back from the SSE  *)
(* events it yielded.                                                       *)

RECURSIVE TextDeltas(_)
TextDeltas(events) ==
    IF events = <<>> THEN <<>>
    ELSE (IF Head(events).type = "content_block_delta" /\ Head(events).kind = "text_delta"
          THEN Head(events).data ELSE <<>>) \o TextDeltas(Tail(events))

OnlyChunksHandled == calls.tools = 0 /\ calls.ends = 0 /\ calls.finish = 0

\* C13: after any sequence of assistantResponseEvent chunks the persistent
\* quote state of the handler is what one QuoteState.update call, started from
\* the all-false state, makes of the concatenation of all text deltas emitted
\* so far, wherever the chunk boundaries fall
C13_QuoteStateFollowsEmittedText ==
    OnlyChunksHandled =>
        handler.quote_state = QuoteUpdate(QuoteInit, TextDeltas(sse))

\* C14: check_at_position(text, pos) is the inside-quotes value of update(text[:pos])
\* from the same starting flags, for every text, starting flags and pos
C14_CheckEqualsUpdateOfPrefix ==
    (quote.checked # "none" /\ quote.prefixed) =>
        quote.checked = Bool(is_inside_quotes(quote.prefix))

\* the calls have been made on a text where update jumps: the scan has passed pos
C14_Witness ==
    /\ quote.text = <<BACKTICK, BACKTICK, BACKTICK>>
    /\ quote.pos = 2
    /\ quote.checked = "True"
    /\ quote.prefixed
    /\ quote.i = 3

\* C14, as the code has it: check_at_position(text, pos) is the inside-quotes value
\* update has when its scan of the whole text first reaches an index >= pos; that
\* is the state of update(text[:pos]) whenever the scan stops at pos itself (pos is
\* not inside an escape pair or a run of three backticks that the scan jumps over);
\* and check_at_position leaves the flags of the object as they were
C14_CheckEqualsScanAtPos ==
    [][ /\ (quote.checked # "none" /\ quote.pos = 0) =>
               quote.checked = Bool(is_inside_quotes(quote.start))
        /\ (quote.checked # "none" /\ quote.i < quote.pos /\ quote'.i >= quote.pos) =>
               quote.checked = Bool(is_inside_quotes(quote'.q))
        /\ (quote.prefixed /\ quote.i = quote.pos) => quote.q = quote.prefix
        /\ (quote.checked = "none" /\ quote'.checked # "none") => quote'.q = quote.q
      ]_vars

\* C15: once the decoder is STOPPED a feed call returns no frames and changes
\* neither the buffer, the counters nor the state, and parse_stream reads nothing
\* more from the upstream byte stream
C15_StoppedIsFinal ==
    [][ decoder.state = "STOPPED" =>
          /\ decoder' = decoder
          /\ returned' = returned
          /\ (wire.via = "parse_stream" => wire' = wire) ]_vars

\* feed has been called on a stopped decoder
C15_Witness ==
    /\ decoder.state = "STOPPED"
    /\ wire.via = "feed"
    /\ wire.late >= 1

------------------------------------------------------------------------------
\* a tool_use content_block_start is among the first k events emitted
ToolUseStartedBy(k) ==
    \E j \in 1..k : sse[j].type = "content_block_start" /\ sse[j].kind = "tool_use"

\* C16: the stop_reason of every message_delta emitted, by assistantResponseEnd
\* or by finish(), is tool_use if a tool_use content_block_start was emitted in
\* the response and end_turn if none was
C16_StopReasonTellsToolUse ==
    \A k \in 1..Len(sse) :
        sse[k].type = "message_delta" =>
            sse[k].kind = IF ToolUseStartedBy(k) THEN "tool_use" ELSE "end_turn"

\* finish() has ended a response in which a tool use was started
C16_Witness ==
    /\ calls.finish = 1
    /\ calls.ends = 0
    /\ Len(sse) >= 2
    /\ sse[Len(sse) - 1].type = "message_delta"
    /\ sse[Len(sse) - 1].kind = "tool_use"
    /\ ToolUseStartedBy(Len(sse))

------------------------------------------------------------------------------
ContentBlockTypes == {"content_block_start", "content_block_delta", "content_block_stop"}

\* message_start, ping, content-block events, and a message_delta only as the
\* last but one event, followed by message_stop
ShapeSoFar(s) ==
    /\ Len(s) >= 2
    /\ s[1].type = "message_start"
    /\ s[2].type = "ping"
    /\ \A k \in 3..Len(s) :
          \/ s[k].type \in ContentBlockTypes
          \/ s[k].type = "message_delta" /\ k = Len(s) - 1
          \/ s[k].type = "message_stop" /\ k = Len(s) /\ s[k - 1].type = "message_delta"

\* the whole shape: the sequence ends with message_delta, message_stop
ShapeComplete(s) ==
    /\ ShapeSoFar(s)
    /\ Len(s) >= 4
    /\ s[Len(s)].type = "message_stop"

\* C17: for any sequence of upstream events followed by finish(), the SSE events
\* emitted are message_start, ping, content-block events, then message_delta
\* immediately followed by message_stop, nothing before message_start and
\* nothing after message_stop
C17_ShapeForAnyEvents ==
    calls.finish = 1 => ShapeComplete(sse)

\* C17, for the sequences of upstream events that begin with initial-response:
\* what is emitted keeps the shape while the events arrive, and is the whole
\* shape once finish() has been called
C17_ShapeAfterInitialResponse ==
    (calls.first = "initial-response" /\ calls.finish <= 1) =>
        /\ ShapeSoFar(sse)
        /\ calls.finish = 1 => ShapeComplete(sse)

\* initial-response, text, a tool use, then finish()
C17_Witness ==
    /\ calls.first = "initial-response"
    /\ calls.finish = 1
    /\ calls.ends = 0
    /\ calls.tools >= 1
    /\ fedText # <<>>
    /\ Len(sse) >= 8

------------------------------------------------------------------------------
\* a poll has just been sent after an earlier one
PolledAgain == poll.pc = "request" /\ poll.before_at >= 0

\* C18: the loop polls again only after a 400 response whose error field is
\* authorization_pending; a 200 response ends it returning the token; any other
\* 4xx or 5xx response ends it with an error, without a further poll
C18_OnlyPendingPollsAgain ==
    [][ /\ (poll.pc = "test" /\ poll'.pc = "request" /\ poll.sent_at >= 0) =>
               AuthorizationPending(poll.answer)
        /\ (poll.pc = "request" /\ poll'.answer.status = 200) => poll'.pc = "returned"
        /\ (/\ poll.pc = "request"
            /\ poll'.answer.status >= 400
            /\ ~AuthorizationPending(poll'.answer)) => poll'.pc = "HTTPStatusError"
      ]_vars

------------------------------------------------------------------------------
\* the number of occurrences of sub in s, as str.count counts them
RECURSIVE CountOf(_, _)
CountOf(s, sub) ==
    IF StrFind(s, sub, 0) = -1 THEN 0
    ELSE 1 + CountOf(Drop(s, StrFind(s, sub, 0) + Len(sub)), sub)

\* the hint is absent, or is there once, as the last thing
HintOnceAtEnd(content) ==
    \/ CountOf(content, THINKING_HINT) = 0
    \/ CountOf(content, THINKING_HINT) = 1 /\ EndsWith(content, THINKING_HINT)

\* the contents of the payload: the current message and the user messages of history
PayloadContents ==
    {outcome.conversationState.currentMessage.userInputMessage.content}
        \cup { outcome.conversationState.history[k].userInputMessage.content :
                 k \in { j \in DOMAIN outcome.conversationState.history :
                           IsUser(outcome.conversationState.history[j]) } }

\* C20: with thinking enabled, the content of the current message and of every
\* user message of the built history holds the thinking hint at most once, at
\* its very end, and appending the hint to a content that ends with it changes
\* nothing
C20_HintOnceAtEnd ==
    (ThinkingEnabled(request) /\ outcome.kind = "payload") =>
        \A content \in PayloadContents :
            /\ HintOnceAtEnd(content)
            /\ EndsWith(content, THINKING_HINT) =>
                   _append_thinking_hint(content, THINKING_HINT) = content

KnownNames == (VALID_MODELS \ {"auto"}) \cup DOMAIN CANONICAL_TO_SHORT

BareName(model) ==
    IF str_endswith(str_lower(str_strip(model)), "-thinking")
    THEN SubSeq(str_lower(str_strip(model)), 1, Len(str_lower(str_strip(model))) - 9)
    ELSE str_lower(str_strip(model))

ModelIdOf(body) == body.conversationState.currentMessage.userInputMessage.modelId

\* C21: for every model string of the request, the modelId of the built
\* payload is one of claude-sonnet-4.5, claude-haiku-4.5 and claude-opus-4.5,
\* and a name that is auto or is not a known name (case, surrounding
\* whitespace and a -thinking suffix set aside) gives claude-sonnet-4.5.
C21_ModelIdIsSupported ==
    outcome.kind = "payload" =>
        /\ ModelIdOf(outcome) \in
               {"claude-sonnet-4.5", "claude-haiku-4.5", "claude-opus-4.5"}
        /\ BareName(request.model) \notin KnownNames =>
               ModelIdOf(outcome) = "claude-sonnet-4.5"

C21_Witness ==
    /\ outcome.kind = "payload"
    /\ request.model = " AUTO-thinking\n\t"
    /\ ModelIdOf(outcome) = "claude-sonnet-4.5"

IsEnabledWord(v) == v.py = "str" /\ str_lower(v.s) = "enabled"

AnyConditionHolds(req) ==
    \/ req.thinking = PyBool(TRUE)
    \/ IsEnabledWord(req.thinking)
    \/ /\ req.thinking.py = "dict"
       /\ \/ IsEnabledWord(req.thinking.type)
          \/ req.thinking.enabled = PyBool(TRUE)
          \/ PositiveNumber(req.thinking.budget_tokens)
    \/ str_endswith(str_lower(str_strip(req.model)), "-thinking")

HintEndsContent(body) ==
    EndsWith(body.conversationState.currentMessage.userInputMessage.content,
             THINKING_HINT)

\* C30: thinking mode is enabled for a request if and only if thinking is
\* true, or is the string enabled, or is an object with type enabled, with
\* enabled true or with a budget_tokens above 0, or the model name carries a
\* -thinking suffix; any one of these suffices whatever the other fields are.
\* Thinking mode shows in the payload as the hint that ends the content.
C30_EnabledIffAnyCondition ==
    outcome.kind = "payload" => (HintEndsContent(outcome) <=> AnyConditionHolds(request))

HeaderRegion(raw) == HeadersData(raw, unpack_I(Slice(raw, 4, 8)))

HeadersCutShort(raw) ==
    HeaderLoop([headers |-> {}, offset |-> 0, done |-> FALSE, raised |-> FALSE],
               HeaderRegion(raw)).done

\* C22: a frame whose header region holds a truncated header field or an
\* unknown header type is a parse error: no message parsed from such a frame,
\* carrying the headers read before the fault, is returned by feed.
C22_FaultyHeadersAreParseErrors ==
    \A k \in DOMAIN returned : ~HeadersCutShort(returned[k].raw)

AttemptOf(d, r) ==
    IF ~r.ok \/ Len(r.d.buffer) < 12 THEN "none" ELSE _try_parse_message(r.d).kind

\* what _try_parse_message returns in the pass that starts in s, if it is called
Attempt(s) ==
    AttemptOf(s.d, IF s.d.state = "RECOVERING" THEN _try_recover(s.d)
                   ELSE [ok |-> TRUE, d |-> s.d])

PassCounts(s, t, attempt) ==
    /\ attempt = "msg" =>
          /\ t.d.error_count = 0
          /\ t.d.messages_parsed = s.d.messages_parsed + 1
          /\ Len(t.returned) = Len(s.returned) + 1
    /\ attempt = "false" =>
          /\ t.d.error_count = s.d.error_count + 1
          /\ t.d.messages_parsed = s.d.messages_parsed
    /\ attempt = "none" =>
          /\ t.d.error_count = s.d.error_count
          /\ t.d.messages_parsed = s.d.messages_parsed
    /\ attempt # "msg" => t.returned = s.returned
    /\ (t.d.state = "STOPPED") = (t.d.error_count >= t.d.max_errors)
    /\ (t.d.state = "STOPPED") = (attempt = "false" /\ t.d.error_count = t.d.max_errors)

RECURSIVE PassesCount(_)
PassesCount(s) ==
    s.done \/ (PassCounts(s, FeedStep(s), Attempt(s)) /\ PassesCount(FeedStep(s)))

FedNow == Take(wire.rest, Len(wire.rest) - Len(wire'.rest))

ErrorCountBelowMax ==
    /\ (decoder.state = "STOPPED") = (decoder.error_count >= decoder.max_errors)
    /\ decoder.error_count <= decoder.max_errors
    /\ decoder.messages_parsed = Len(returned)

\* C23: error_count counts consecutive failed parse attempts.  In every pass of
\* the loop of feed, a parsed frame sets error_count to 0 and adds one to
\* messages_parsed, a parse error adds one to error_count, anything else
\* leaves both; the decoder is STOPPED exactly when error_count has reached
\* max_errors, and error_count is below max_errors in every other state.
C23_ErrorCountIsConsecutiveErrors ==
    /\ []ErrorCountBelowMax
    /\ [][decoder.state # "STOPPED" =>
            PassesCount([d |-> [decoder EXCEPT !.buffer = @ \o FedNow],
                         returned |-> <<>>, done |-> FALSE])]_vars

C23_Witness ==
    /\ decoder.state = "STOPPED"
    /\ decoder.error_count = decoder.max_errors
    /\ decoder.messages_parsed > 0

RECURSIVE MessagesOf(_)
MessagesOf(ret) ==
    IF ret = <<>> THEN <<>> ELSE <<Head(ret).msg>> \o MessagesOf(Tail(ret))

SameDecoderState(d, e) ==
    /\ d.state = e.state
    /\ d.error_count = e.error_count
    /\ d.messages_parsed = e.messages_parsed
    /\ d.crc_errors = e.crc_errors
    /\ Len(d.buffer) = Len(e.buffer)

\* C24: with validate_crc false no step of the decoder depends on a CRC
\* field: two streams that differ only in the values of their prelude_crc and
\* message_crc fields, fed in the same chunks, give the same messages and
\* leave the two decoders in the same state.
C24_CrcFieldsAreIgnored ==
    (~decoder.validate_crc /\ ~twin.d.validate_crc) =>
        /\ MessagesOf(returned) = MessagesOf(twin.returned)
        /\ SameDecoderState(decoder, twin.d)

RecoveringIsBounded ==
    decoder.state = "RECOVERING" => Len(decoder.buffer) <= 16 * 1024

OneFailedScan ==
    /\ decoder.state = "RECOVERING"
    /\ decoder'.state = "RECOVERING"
    /\ decoder'.error_count = decoder.error_count
    /\ returned' = returned
    /\ wire'.fed # wire.fed

\* C25: a recovery scan that fails while the buffer holds more than 16 KiB
\* leaves the last 1 KiB of the buffer; hence after every feed call that
\* returns with the decoder in RECOVERING the buffer holds at most 16 KiB.
\* (A feed call that starts and ends in RECOVERING with the same error_count
\* and without a message has made one scan, which failed.)
C25_FailedRecoveryBoundsBuffer ==
    /\ []RecoveringIsBounded
    /\ [][(OneFailedScan /\ Len(decoder.buffer) + Len(FedNow) - 1 > 16 * 1024) =>
             decoder'.buffer = Drop(decoder.buffer \o FedNow,
                                    Len(decoder.buffer) + Len(FedNow) - 1024)]_vars

C25_Witness ==
    /\ decoder.state = "RECOVERING"
    /\ wire.feeds = 2
    /\ Len(wire.fed) > 16 * 1024
    /\ Len(decoder.buffer) = 1024

\* the content of the assistantResponseEvent being handled
ChunkNow == SubSeq(fedText', Len(fedText) + 1, Len(fedText'))

\* the events being emitted
EmittedNow == SubSeq(sse', Len(sse) + 1, Len(sse'))

\* outside a thinking block, the content holds no real opening tag and ends
\* with a beginning of the tag that is not the whole content
ProperSuffixIsTagPrefix ==
    /\ fedText' # fedText
    /\ ~handler.in_think_block
    /\ handler.pending_start_tag_chars = 0
    /\ handler.think_buffer = <<>>
    /\ find_real_tag(ChunkNow, THINKING_START_TAG, 0, handler.quote_state) = -1
    /\ _pending_tag_suffix(ChunkNow, THINKING_START_TAG) \in 1..(Len(ChunkNow) - 1)

\* C26: outside a thinking block, when the buffer holds no real <thinking> tag
\* and only a proper suffix of it is a prefix of the tag, the handler emits the
\* text before that suffix, keeps the suffix buffered and opens no thinking
\* block; a thinking block is opened only once the input has completed the tag.
C26_TagPrefixIsHeldBack ==
    [][ /\ ProperSuffixIsTagPrefix =>
            /\ ~handler'.in_think_block
            /\ handler'.pending_start_tag_chars = 0
            /\ handler'.think_buffer =
                   Drop(ChunkNow, Len(ChunkNow)
                                    - _pending_tag_suffix(ChunkNow, THINKING_START_TAG))
            /\ \A k \in DOMAIN EmittedNow : EmittedNow[k].kind # "thinking"
        /\ (handler'.in_think_block /\ ~handler.in_think_block) =>
            Contains(fedText', THINKING_START_TAG) ]_vars

DeltaTypeOf(block_type) ==
    CASE block_type = "text" -> "text_delta"
      [] block_type = "thinking" -> "thinking_delta"
      [] block_type = "tool_use" -> "input_json_delta"

\* the content_block_start whose block is open just before the i-th event
OpenAt(i) ==
    { j \in 1..(i - 1) :
        /\ sse[j].type = "content_block_start"
        /\ \A k \in (j + 1)..(i - 1) :
              ~(sse[k].type = "content_block_stop" /\ sse[k].index = sse[j].index) }

\* C27: every content_block_delta is emitted while the content block of its
\* index is open, after its content_block_start and before its
\* content_block_stop, and has the delta type of that block; at most one
\* content block is open at any time.
C27_DeltasInsideTheirBlock ==
    \A i \in DOMAIN sse :
        /\ Cardinality(OpenAt(i)) <= 1
        /\ sse[i].type = "content_block_delta" =>
              \E j \in OpenAt(i) :
                  /\ sse[j].index = sse[i].index
                  /\ sse[i].kind = DeltaTypeOf(sse[j].kind)

\* C28: whenever the handler enters a thinking block, through a real tag or
\* through a buffer that is a tag prefix, the quote state is all false at that
\* moment; a call that handles no text leaves the quote state as it is.
C28_QuoteStateResetOnEntry ==
    [][ /\ (handler'.in_think_block /\ ~handler.in_think_block) =>
              handler'.quote_state = QuoteInit
        /\ fedText' = fedText => handler'.quote_state = handler.quote_state ]_vars

\* the call being made ends the response
EndsNow == ~ResponseOver /\ ResponseOver'

\* C29: when the response ends, by assistantResponseEnd or by finish(), no
\* text is left unemitted: what think_buffer holds back as a possible beginning
\* of a tag is emitted as a delta before the last block is closed.
C29_HeldBackTextIsEmitted ==
    [][ (EndsNow /\ handler.think_buffer # <<>>) =>
            \E k \in DOMAIN EmittedNow :
                /\ EmittedNow[k].type = "content_block_delta"
                /\ EmittedNow[k].data = handler.think_buffer ]_vars

------------------------------------------------------------------------------
(* The second pass of process_history, read off the positions of the raw    *)
(* history.                                                                 *)

RawHistory ==
    FirstPass([raw_history         |-> <<>>,
               seen_tool_use_ids   |-> {},
               last_tool_use_order |-> <<>>,
               thinking_enabled    |-> ThinkingEnabled(request),
               hint                |-> THINKING_HINT],
              HistoryMessages(request.messages)).raw_history

\* an entry the second pass copies: an assistant entry or a user entry that
\* carries toolResults
IsCopied(item) == IsAssistant(item) \/ item.userInputMessage.toolResults # <<>>

\* the end of the maximal run of other user entries that starts at i
RunEnd(raw, i) ==
    CHOOSE j \in i..Len(raw) :
        /\ \A k \in i..j : ~IsCopied(raw[k])
        /\ j = Len(raw) \/ IsCopied(raw[j + 1])

RunMessages(raw, i) ==
    [k \in 1..(RunEnd(raw, i) - i + 1) |-> raw[i + k - 1].userInputMessage]

\* the positions that give an entry: the copied ones and the start of each run
GivesEntry(raw, i) == IsCopied(raw[i]) \/ i = 1 \/ IsCopied(raw[i - 1])

EntryAt(raw, i) ==
    IF IsCopied(raw[i]) THEN raw[i]
    ELSE [userInputMessage |->
             merge_user_messages(RunMessages(raw, i), THINKING_HINT)]

RECURSIVE EntriesFrom(_, _)
EntriesFrom(raw, i) ==
    IF i > Len(raw) THEN <<>>
    ELSE IF GivesEntry(raw, i) THEN <<EntryAt(raw, i)>> \o EntriesFrom(raw, i + 1)
    ELSE EntriesFrom(raw, i + 1)

ConsecutiveUsers(raw) ==
    \E i \in 1..(Len(raw) - 1) : IsUser(raw[i]) /\ IsUser(raw[i + 1])

\* C31: when the first pass yields consecutive user messages, the history
\* is the raw history in its order with every assistant entry and every
\* user entry carrying toolResults copied unchanged, and every maximal run
\* of the other user entries replaced, at its place, by the one entry that
\* merges them; a built payload carries that history.
C31_RunsMergedAroundToolResults ==
    (Converted /\ ConsecutiveUsers(RawHistory)) =>
        /\ process_history(HistoryMessages(request.messages),
                           ThinkingEnabled(request), THINKING_HINT)
               = EntriesFrom(RawHistory, 1)
        /\ outcome.kind = "payload" => HistoryOut = EntriesFrom(RawHistory, 1)

\* reached: a converted request whose raw history has two plain user messages
\* in a row right before a user message with tool results
C31_Witness ==
    /\ Converted
    /\ \E i \in 1..(Len(RawHistory) - 2) :
           /\ IsUser(RawHistory[i]) /\ ~IsCopied(RawHistory[i])
           /\ IsUser(RawHistory[i + 1]) /\ ~IsCopied(RawHistory[i + 1])
           /\ IsUser(RawHistory[i + 2]) /\ IsCopied(RawHistory[i + 2])

------------------------------------------------------------------------------
(* The content and the tools of the built current message.                  *)

ContentOut == outcome.conversationState.currentMessage.userInputMessage.content

\* the opening lines of the sections and the hint, in the order stated
SectionMarks ==
    <<TOOL_DOCUMENTATION_BEGIN, SYSTEM_PROMPT_BEGIN,
      <<"--- CONTEXT ENTRY BEGIN ---">>, USER_MESSAGE_BEGIN, THINKING_HINT>>

\* C32: in the content of the built current message the sections that are
\* present come in the order TOOL DOCUMENTATION, SYSTEM PROMPT, CONTEXT
\* ENTRY, USER MESSAGE, and the thinking hint, when present, comes after all
\* of them.
C32_SectionsInOrder ==
    outcome.kind = "payload" =>
        \A i, j \in DOMAIN SectionMarks :
            (/\ i < j
             /\ Contains(ContentOut, SectionMarks[i])
             /\ Contains(ContentOut, SectionMarks[j]))
                => StrFind(ContentOut, SectionMarks[i], 0)
                       < StrFind(ContentOut, SectionMarks[j], 0)

ToolsOut == outcome.conversationState.currentMessage.userInputMessage.tools

ToolNameOf(tool) ==
    IF "toolSpecification" \in DOMAIN tool THEN tool.toolSpecification.name
    ELSE tool.name

\* the names that the tool_use blocks of the assistant messages refer to
ReferencedNames ==
    { AssistantBlocks(request.messages)[k].name :
        k \in { i \in DOMAIN AssistantBlocks(request.messages) :
                  /\ AssistantBlocks(request.messages)[i].type = "tool_use"
                  /\ AssistantBlocks(request.messages)[i].name # None } }

\* C34: in a built payload every tool name that a tool_use block of an
\* assistant message refers to is the name of a tool of the current message;
\* the tools are the converted tools of the request followed by exactly one
\* placeholder for each referenced name the request does not define, and by
\* no placeholder for a name it defines.
C34_ReferencedToolsAreListed ==
    outcome.kind = "payload" =>
        /\ ReferencedNames \subseteq { ToolNameOf(ToolsOut[k]) : k \in DOMAIN ToolsOut }
        /\ Len(ToolsOut) >= Len(request.tools)
        /\ \A k \in DOMAIN request.tools : ToolsOut[k] = convert_tool(request.tools[k])
        /\ \A name \in ReferencedNames \ DefinedToolNames(request.tools) :
               Cardinality({ k \in (Len(request.tools) + 1)..Len(ToolsOut) :
                               ToolsOut[k] = PlaceholderTool(name) }) = 1
        /\ \A k \in (Len(request.tools) + 1)..Len(ToolsOut) :
               ToolNameOf(ToolsOut[k]) \notin DefinedToolNames(request.tools)

------------------------------------------------------------------------------
\* the payloads of the deltas of one kind emitted before the i-th event
RECURSIVE DeltasBefore(_, _)
DeltasBefore(kind, i) ==
    IF i <= 1 THEN <<>>
    ELSE DeltasBefore(kind, i - 1)
         \o (IF sse[i - 1].type = "content_block_delta" /\ sse[i - 1].kind = kind
             THEN sse[i - 1].data ELSE <<>>)

\* C33: when the response ends, the text counted for the output tokens is
\* all the text emitted as text deltas followed by all the fragments emitted
\* as input_json_delta, whichever way each tool_use block was closed.
C33_CountedTextIsEmittedText ==
    \A i \in DOMAIN sse :
        sse[i].type = "message_delta" =>
            sse[i].data = DeltasBefore("text_delta", i)
                              \o DeltasBefore("input_json_delta", i)

(***************************************************************************)
(* C35.  Every call of feed returns.  A pass of its loop leaves the loop   *)
(* or removes at least one byte from the buffer, except the pass whose     *)
(* parse fails: that pass records the error and sets the state RECOVERING  *)
(* with the buffer unchanged, and the pass after it removes a byte or      *)
(* leaves the loop.                                                        *)
(***************************************************************************)
InLoop == wire.via = "loop"

PassLeavesOrShrinks ==
    InLoop => (~InLoop' \/ Len(decoder'.buffer) < Len(decoder.buffer))

PassRecordsFailure ==
    /\ decoder.state # "RECOVERING"
    /\ decoder'.state = "RECOVERING"
    /\ decoder'.error_count = decoder.error_count + 1
    /\ decoder'.buffer = decoder.buffer

\* C35 as worded: every pass of the loop of feed leaves the loop or removes at
\* least one byte from the buffer
C35_EveryPassLeavesOrShrinks == [][PassLeavesOrShrinks]_vars

C35_PassProgress ==
    [][InLoop => (PassLeavesOrShrinks \/ PassRecordsFailure)]_vars

\* C35: every call of feed returns
C35_FeedReturns == InLoop ~> ~InLoop

\* C35: a pass that does not leave the loop and removes no byte is a failed
\* parse that turns the decoder to RECOVERING
C35_FeedTerminates == C35_PassProgress /\ C35_FeedReturns

C35_Witness ==
    /\ InLoop
    /\ decoder.state = "RECOVERING"
    /\ decoder.error_count >= 1
    /\ Len(decoder.buffer) >= 12

headers_length_of(raw) == unpack_I(Slice(raw, 4, 8))

\* C36: every frame returned by the decoder has headers_length <=
\* total_length - 16: its header region and its payload lie inside the frame,
\* before the message CRC.
C36_HeadersInsideFrame ==
    \A k \in DOMAIN returned :
        headers_length_of(returned[k].raw) <= returned[k].msg.total_length - 16

\* the (event_type, payload) pairs of the decoded frames that carry an event type
RECURSIVE TypedPairs(_)
TypedPairs(messages) ==
    IF messages = <<>> THEN <<>>
    ELSE YieldsOf_AnyPayload(extract_event_info(Head(messages).msg))
             \o TypedPairs(Tail(messages))

\* C37: every decoded frame that carries an event type is yielded by the event
\* iterator as an (event_type, payload) pair, in decode order, frames with an
\* empty payload or an empty JSON object included.
C37_TypedFramesAreForwarded ==
    wire.via = "iter_events" => wire.events = TypedPairs(returned)

Occurrences(s, x) == Cardinality({ i \in DOMAIN s : s[i] = x })

IsPermutation(s, t) ==
    /\ Len(s) = Len(t)
    /\ \A x \in Range(s) \cup Range(t) : Occurrences(s, x) = Occurrences(t, x)

DistinctIds(tool_results) ==
    \A i, j \in DOMAIN tool_results :
        tool_results[i].toolUseId = tool_results[j].toolUseId => i = j

\* C38: for tool results with pairwise distinct toolUseIds and any tool_use
\* order list, _reorder_tool_results_by_tool_uses returns a permutation of the
\* results, and applied again to what it returned it returns the same list.
C38_ReorderIsIdempotentPermutation ==
    (outcome.kind = "reordered" /\ DistinctIds(request.tool_results)) =>
        /\ IsPermutation(outcome.results, request.tool_results)
        /\ outcome.results = outcome.first

\* three results, one of them without id, reordered twice by a list that
\* repeats an id, names an absent one and moves a result
C38_Witness ==
    /\ outcome.kind = "reordered"
    /\ outcome.passes = 2
    /\ DistinctIds(request.tool_results)
    /\ Len(request.tool_results) = 3
    /\ \E i \in DOMAIN request.tool_results : request.tool_results[i].toolUseId = None
    /\ \E i, j \in DOMAIN request.tool_use_order :
           i # j /\ request.tool_use_order[i] = request.tool_use_order[j]
    /\ "D" \in Range(request.tool_use_order)
    /\ outcome.results # request.tool_results

\* C39: a client passed by the caller is never closed by the dispatcher,
\* whatever path the call and its generator take.
C39_GivenClientStaysOpen ==
    dispatch.client_given => dispatch.given = "open"

\* the dispatcher has closed the response of a call made with the caller's
\* client, the generator having ended or the call having failed
C39_Witness ==
    /\ dispatch.client_given
    /\ dispatch.resp = "closed"
    /\ dispatch.given = "open"
    /\ dispatch.client = "none"

IsBlockStart(e) == e.type = "content_block_start"

BlockStarts == SelectSeq(sse, IsBlockStart)

\* C40: the content_block_start events carry the indexes 0, 1, 2, ... in the
\* order they are emitted, whatever the block types, and content_block_index
\* is the number of content_block_start events emitted so far minus 1.
C40_BlockIndexesCount ==
    /\ \A k \in DOMAIN BlockStarts : BlockStarts[k].index = k - 1
    /\ handler.content_block_index = Len(BlockStarts) - 1

\* three blocks started, a thinking block, a text block and a tool_use block
\* among them
C40_Witness ==
    /\ Len(BlockStarts) >= 3
    /\ \A kind \in {"thinking", "text", "tool_use"} :
           \E k \in DOMAIN BlockStarts : BlockStarts[k].kind = kind

====
